---- MODULE Spec2Model ----
(***************************************************************************)
(* A model of the Scout recruitment agent: the keyword intent classifier,  *)
(* the key=value parameter extractor, the nine template handlers and the   *)
(* console chat loop (src/handlers.py, src/prompt_templates.py,            *)
(* src/main.py), and the two structured-generation scripts                 *)
(* (src/agents/recruitement_agent).                                        *)
(*                                                                         *)
(* Text is a sequence of characters, each character a one-character        *)
(* string; a character outside ASCII is written "\\uXXXX" and counts as    *)
(* one character.  The literal runs of a template between two insertion    *)
(* points are carried as one element each: they hold no square bracket    *)
(* and no brace, and no operation splits or searches a filled template.    *)
(***************************************************************************)
EXTENDS Integers, Sequences, FiniteSets, TLC

VARIABLES
  history,     \* ScoutAgent.history: the list of Message(role, content)
  chat_pc,     \* run_chat: "running" inside the while loop, "exited" after a break
  op,          \* the operation applied last
  user_input,  \* the message handed to the operation
  intent,      \* what get_intent returned for user_input
  params,      \* what parse_params_from_message returned for user_input
  calls,       \* the methods route_message invoked, in order
  response,    \* what route_message returned
  adapter,     \* the generation script a call runs in: "jd", "rr" or "none"
  a_pc,        \* where the call stands
  api_key,     \* generate_inclusive_jd's api_key argument
  env_key,     \* GOOGLE_API_KEY in the environment once load_dotenv has run
  input_data,  \* the caller's input: a dict (jd) or a text (rr)
  prompt,      \* the prompt handed to generate_content
  model_calls, \* how often generate_content was invoked in this call
  outcome,     \* what generate_content did: raised, or returned a text
  data,        \* the parsed reply the call works on
  trail,       \* the places the call went through, in order
  result       \* how the call ended: a returned value or a raised exception

chat_vars == <<history, chat_pc, op, user_input, intent, params, calls, response>>
gen_vars == <<adapter, a_pc, api_key, env_key, input_data, prompt, model_calls,
              outcome, data, trail, result>>
vars == <<chat_vars, gen_vars>>

(***************************************************************************)
(* Python str and re primitives, as the code uses them.                    *)
(***************************************************************************)
UPPERCASE == <<"A","B","C","D","E","F","G","H","I","J","K","L","M",
               "N","O","P","Q","R","S","T","U","V","W","X","Y","Z">>
LOWERCASE == <<"a","b","c","d","e","f","g","h","i","j","k","l","m",
               "n","o","p","q","r","s","t","u","v","w","x","y","z">>
DIGITS == {"0","1","2","3","4","5","6","7","8","9"}

\* str.isspace for one character
IsSpace(c) == c \in {" ", "\t", "\n", "\r", "\f"}

\* \w of a str pattern, for one character
IsWord(c) ==
  \/ \E i \in 1..26 : c = UPPERCASE[i] \/ c = LOWERCASE[i]
  \/ c \in DIGITS
  \/ c = "_"

\* str.lower
lower(s) ==
  [i \in 1..Len(s) |->
     IF \E k \in 1..26 : UPPERCASE[k] = s[i]
     THEN LOWERCASE[CHOOSE k \in 1..26 : UPPERCASE[k] = s[i]]
     ELSE s[i]]

RECURSIVE lstrip(_)
lstrip(s) == IF s # <<>> /\ IsSpace(s[1]) THEN lstrip(Tail(s)) ELSE s

RECURSIVE rstrip(_)
rstrip(s) ==
  IF s # <<>> /\ IsSpace(s[Len(s)]) THEN rstrip(SubSeq(s, 1, Len(s) - 1)) ELSE s

\* str.strip()
strip(s) == rstrip(lstrip(s))

\* str.find(c, i): the first index >= i holding c, 0 when there is none
RECURSIVE find(_, _, _)
find(s, c, i) ==
  IF i > Len(s) THEN 0 ELSE IF s[i] = c THEN i ELSE find(s, c, i + 1)

\* c in s
contains_char(s, c) == find(s, c, 1) # 0

\* s.split(c)
RECURSIVE split(_, _)
split(s, c) ==
  LET i == find(s, c, 1)
  IN IF i = 0 THEN <<s>>
     ELSE <<SubSeq(s, 1, i - 1)>> \o split(SubSeq(s, i + 1, Len(s)), c)

\* s.split(c, 1), for s holding c
split1(s, c) ==
  LET i == find(s, c, 1)
  IN <<SubSeq(s, 1, i - 1), SubSeq(s, i + 1, Len(s))>>

\* sub in s
contains(s, sub) ==
  \E i \in 1..(Len(s) - Len(sub) + 1) :
     s[i] = sub[1] /\ SubSeq(s, i, i + Len(sub) - 1) = sub

\* \b between s[k] and s[k+1] (k = 0: the start; k = Len(s): the end)
boundary(s, k) ==
  LET before == k >= 1 /\ k <= Len(s) /\ IsWord(s[k])
      after  == k + 1 <= Len(s) /\ IsWord(s[k + 1])
  IN before # after

\* One alternative of a pattern: a literal with an optional \b on either side.
Alt(lb, word, rb) == [lb |-> lb, word |-> word, rb |-> rb]

\* the alternative matches s at index i
match_at(alt, s, i) ==
  /\ i + Len(alt.word) - 1 <= Len(s)
  /\ s[i] = alt.word[1]
  /\ SubSeq(s, i, i + Len(alt.word) - 1) = alt.word
  /\ alt.lb => boundary(s, i - 1)
  /\ alt.rb => boundary(s, i + Len(alt.word) - 1)

\* re.search(pattern, s) is not None
re_search(pattern, s) ==
  \E i \in 1..Len(s) : \E a \in 1..Len(pattern) : match_at(pattern[a], s, i)

(***************************************************************************)
(* The literals of the nine patterns of get_intent.                        *)
(***************************************************************************)
KW_boolean == <<"b", "o", "o", "l", "e", "a", "n">>
KW_search == <<"s", "e", "a", "r", "c", "h">>
KW_role_refinement == <<"r", "o", "l", "e", " ", "r", "e", "f", "i", "n", "e", "m", "e", "n", "t">>
KW_job_description == <<"j", "o", "b", " ", "d", "e", "s", "c", "r", "i", "p", "t", "i", "o", "n">>
KW_draft_jd == <<"d", "r", "a", "f", "t", " ", "j", "d">>
KW_write_jd == <<"w", "r", "i", "t", "e", " ", "j", "d">>
KW_inclusive_jd == <<"i", "n", "c", "l", "u", "s", "i", "v", "e", " ", "j", "d">>
KW_outreach == <<"o", "u", "t", "r", "e", "a", "c", "h">>
KW_message == <<"m", "e", "s", "s", "a", "g", "e">>
KW_sourcing == <<"s", "o", "u", "r", "c", "i", "n", "g">>
KW_market_map == <<"m", "a", "r", "k", "e", "t", " ", "m", "a", "p">>
KW_channels == <<"c", "h", "a", "n", "n", "e", "l", "s">>
KW_interview_guide == <<"i", "n", "t", "e", "r", "v", "i", "e", "w", " ", "g", "u", "i", "d", "e">>
KW_scorecard == <<"s", "c", "o", "r", "e", "c", "a", "r", "d">>
KW_task_triage == <<"t", "a", "s", "k", " ", "t", "r", "i", "a", "g", "e">>
KW_daily_digest == <<"d", "a", "i", "l", "y", " ", "d", "i", "g", "e", "s", "t">>
KW_offer == <<"o", "f", "f", "e", "r">>
KW_onboarding == <<"o", "n", "b", "o", "a", "r", "d", "i", "n", "g">>
KW_summary == <<"s", "u", "m", "m", "a", "r", "y">>
KW_summarise_candidate == <<"s", "u", "m", "m", "a", "r", "i", "s", "e", " ", "c", "a", "n", "d", "i", "d", "a", "t", "e">>
KW_candidate_profile == <<"c", "a", "n", "d", "i", "d", "a", "t", "e", " ", "p", "r", "o", "f", "i", "l", "e">>
KW_salary_benchmark == <<"s", "a", "l", "a", "r", "y", " ", "b", "e", "n", "c", "h", "m", "a", "r", "k">>
KW_market_insight == <<"m", "a", "r", "k", "e", "t", " ", "i", "n", "s", "i", "g", "h", "t">>
KW_labor_market == <<"l", "a", "b", "o", "r", " ", "m", "a", "r", "k", "e", "t">>

None == "None"

\* The keyword rules of get_intent, in the order of the list.  A \b binds to
\* the literal next to it only: r"\boutreach|message\b" is \boutreach or
\* message\b, while the parenthesised patterns carry both on every literal.
patterns ==
  << [pattern |-> <<Alt(TRUE, KW_boolean, TRUE), Alt(TRUE, KW_search, TRUE),
                    Alt(TRUE, KW_role_refinement, TRUE)>>,
      intent |-> "role_refinement"],
     [pattern |-> <<Alt(TRUE, KW_job_description, TRUE), Alt(TRUE, KW_draft_jd, TRUE),
                    Alt(TRUE, KW_write_jd, TRUE), Alt(TRUE, KW_inclusive_jd, TRUE)>>,
      intent |-> "inclusive_jd"],
     [pattern |-> <<Alt(TRUE, KW_outreach, FALSE), Alt(FALSE, KW_message, TRUE)>>,
      intent |-> "outreach_message"],
     [pattern |-> <<Alt(TRUE, KW_sourcing, FALSE), Alt(FALSE, KW_market_map, FALSE),
                    Alt(FALSE, KW_channels, TRUE)>>,
      intent |-> "sourcing_plan"],
     [pattern |-> <<Alt(TRUE, KW_interview_guide, FALSE), Alt(FALSE, KW_scorecard, TRUE)>>,
      intent |-> "interview_guide"],
     [pattern |-> <<Alt(TRUE, KW_task_triage, FALSE), Alt(FALSE, KW_daily_digest, TRUE)>>,
      intent |-> "task_triage"],
     [pattern |-> <<Alt(TRUE, KW_offer, FALSE), Alt(FALSE, KW_onboarding, TRUE)>>,
      intent |-> "offer_handover"],
     [pattern |-> <<Alt(TRUE, KW_summary, FALSE), Alt(FALSE, KW_summarise_candidate, FALSE),
                    Alt(FALSE, KW_candidate_profile, TRUE)>>,
      intent |-> "candidate_summary"],
     [pattern |-> <<Alt(TRUE, KW_salary_benchmark, FALSE), Alt(FALSE, KW_market_insight, FALSE),
                    Alt(FALSE, KW_labor_market, TRUE)>>,
      intent |-> "market_insights"] >>

\* The loop of get_intent without its early return: a later matching rule
\* overwrites an earlier one.
RECURSIVE last_match(_, _, _)
last_match(rules, msg_lower, i) ==
  IF i > Len(rules) THEN None
  ELSE LET later == last_match(rules, msg_lower, i + 1)
       IN IF later # None THEN later
          ELSE IF re_search(rules[i].pattern, msg_lower) THEN rules[i].intent
          ELSE None

\* The for loop of get_intent from rule i on: the first rule that matches
\* returns its intent, and None is returned when the list is exhausted.
RECURSIVE first_match(_, _, _)
first_match(rules, msg_lower, i) ==
  IF i > Len(rules) THEN None
  ELSE IF re_search(rules[i].pattern, msg_lower) THEN rules[i].intent
  ELSE first_match(rules, msg_lower, i + 1)

get_intent(message) ==
  LET msg_lower == lower(message)
  IN first_match(patterns, msg_lower, 1)

(***************************************************************************)
(* parse_params_from_message.  A dict is a function from its keys.         *)
(***************************************************************************)
EmptyDict == [k \in {} |-> <<>>]

\* params[key] = value
dict_set(d, key, value) ==
  [k \in DOMAIN d \cup {key} |-> IF k = key THEN value ELSE d[k]]

\* params.get that never finds the key.
dict_get_missing(d, key, default) == default

\* params.get(key, default)
dict_get(d, key, default) == IF key \in DOMAIN d THEN d[key] ELSE default

\* The loop over parts with the first value of a key kept.
RECURSIVE parse_parts_first_wins(_, _)
parse_parts_first_wins(parts, acc) ==
  IF parts = <<>> THEN acc
  ELSE LET part == Head(parts)
       IN IF contains_char(part, "=")
          THEN LET kv == split1(part, "=")
               IN parse_parts_first_wins(Tail(parts),
                    IF strip(kv[1]) \in DOMAIN acc THEN acc
                    ELSE dict_set(acc, strip(kv[1]), strip(kv[2])))
          ELSE parse_parts_first_wins(Tail(parts), acc)

\* The for loop over parts, lines 120-123.
RECURSIVE parse_parts(_, _)
parse_parts(parts, acc) ==
  IF parts = <<>> THEN acc
  ELSE LET part == Head(parts)
       IN IF contains_char(part, "=")
          THEN LET kv == split1(part, "=")
               IN parse_parts(Tail(parts), dict_set(acc, strip(kv[1]), strip(kv[2])))
          ELSE parse_parts(Tail(parts), acc)

parse_params_from_message(message) ==
  IF ~contains_char(message, ":") THEN EmptyDict
  ELSE LET tail == split1(message, ":")[2]
           parts == split(tail, ",")
       IN parse_parts(parts, EmptyDict)

(***************************************************************************)
(* The parameter names the handlers look up.                               *)
(***************************************************************************)
K_benefits == <<"b", "e", "n", "e", "f", "i", "t", "s">>
K_brand_tone == <<"b", "r", "a", "n", "d", "_", "t", "o", "n", "e">>
K_candidate_cv == <<"c", "a", "n", "d", "i", "d", "a", "t", "e", "_", "c", "v">>
K_candidate_name == <<"c", "a", "n", "d", "i", "d", "a", "t", "e", "_", "n", "a", "m", "e">>
K_candidate_stages == <<"c", "a", "n", "d", "i", "d", "a", "t", "e", "_", "s", "t", "a", "g", "e", "s">>
K_competencies == <<"c", "o", "m", "p", "e", "t", "e", "n", "c", "i", "e", "s">>
K_industry == <<"i", "n", "d", "u", "s", "t", "r", "y">>
K_jd_link == <<"j", "d", "_", "l", "i", "n", "k">>
K_location == <<"l", "o", "c", "a", "t", "i", "o", "n">>
K_must_have == <<"m", "u", "s", "t", "_", "h", "a", "v", "e">>
K_nice_to_have == <<"n", "i", "c", "e", "_", "t", "o", "_", "h", "a", "v", "e">>
K_onboarding_sops == <<"o", "n", "b", "o", "a", "r", "d", "i", "n", "g", "_", "s", "o", "p", "s">>
K_open_roles == <<"o", "p", "e", "n", "_", "r", "o", "l", "e", "s">>
K_pending_feedback == <<"p", "e", "n", "d", "i", "n", "g", "_", "f", "e", "e", "d", "b", "a", "c", "k">>
K_requirements == <<"r", "e", "q", "u", "i", "r", "e", "m", "e", "n", "t", "s">>
K_responsibilities == <<"r", "e", "s", "p", "o", "n", "s", "i", "b", "i", "l", "i", "t", "i", "e", "s">>
K_role_requirements == <<"r", "o", "l", "e", "_", "r", "e", "q", "u", "i", "r", "e", "m", "e", "n", "t", "s">>
K_role_title == <<"r", "o", "l", "e", "_", "t", "i", "t", "l", "e">>
K_seniority == <<"s", "e", "n", "i", "o", "r", "i", "t", "y">>
K_stages == <<"s", "t", "a", "g", "e", "s">>
K_start_date == <<"s", "t", "a", "r", "t", "_", "d", "a", "t", "e">>
K_tone == <<"t", "o", "n", "e">>
K_top_skills == <<"t", "o", "p", "_", "s", "k", "i", "l", "l", "s">>
K_upcoming_interviews == <<"u", "p", "c", "o", "m", "i", "n", "g", "_", "i", "n", "t", "e", "r", "v", "i", "e", "w", "s">>
K_value_proposition == <<"v", "a", "l", "u", "e", "_", "p", "r", "o", "p", "o", "s", "i", "t", "i", "o", "n">>

(***************************************************************************)
(* The defaults the handlers pass to params.get.                           *)
(***************************************************************************)
D_role_title == <<"[", "r", "o", "l", "e", " ", "t", "i", "t", "l", "e", "]">>
D_location == <<"[", "l", "o", "c", "a", "t", "i", "o", "n", "]">>
D_seniority == <<"[", "s", "e", "n", "i", "o", "r", "i", "t", "y", "]">>
D_must_have_skills == <<"[", "m", "u", "s", "t", "\\u2011", "h", "a", "v", "e", " ", "s", "k", "i", "l", "l", "s", "]">>
D_nice_to_have_skills == <<"[", "n", "i", "c", "e", "\\u2011", "t", "o", "\\u2011", "h", "a", "v", "e", " ", "s", "k", "i", "l", "l", "s", "]">>
D_responsibilities == <<"[", "r", "e", "s", "p", "o", "n", "s", "i", "b", "i", "l", "i", "t", "i", "e", "s", "]">>
D_requirements == <<"[", "r", "e", "q", "u", "i", "r", "e", "m", "e", "n", "t", "s", "]">>
D_benefits == <<"[", "b", "e", "n", "e", "f", "i", "t", "s", "]">>
D_neutral == <<"n", "e", "u", "t", "r", "a", "l">>
D_candidate == <<"[", "c", "a", "n", "d", "i", "d", "a", "t", "e", "]">>
D_top_skills == <<"[", "t", "o", "p", " ", "s", "k", "i", "l", "l", "s", "]">>
D_value_proposition == <<"[", "v", "a", "l", "u", "e", " ", "p", "r", "o", "p", "o", "s", "i", "t", "i", "o", "n", "]">>
D_JD_link == <<"[", "J", "D", " ", "l", "i", "n", "k", "]">>
D_professional == <<"p", "r", "o", "f", "e", "s", "s", "i", "o", "n", "a", "l">>
D_industry_domain == <<"[", "i", "n", "d", "u", "s", "t", "r", "y", "/", "d", "o", "m", "a", "i", "n", "]">>
D_competencies == <<"[", "c", "o", "m", "p", "e", "t", "e", "n", "c", "i", "e", "s", "]">>
D_phone_technical_panel == <<"p", "h", "o", "n", "e", ",", " ", "t", "e", "c", "h", "n", "i", "c", "a", "l", ",", " ", "p", "a", "n", "e", "l">>
D_open_roles == <<"[", "o", "p", "e", "n", " ", "r", "o", "l", "e", "s", "]">>
D_candidate_stages == <<"[", "c", "a", "n", "d", "i", "d", "a", "t", "e", " ", "s", "t", "a", "g", "e", "s", "]">>
D_pending_feedback == <<"[", "p", "e", "n", "d", "i", "n", "g", " ", "f", "e", "e", "d", "b", "a", "c", "k", "]">>
D_upcoming_interviews == <<"[", "u", "p", "c", "o", "m", "i", "n", "g", " ", "i", "n", "t", "e", "r", "v", "i", "e", "w", "s", "]">>
D_start_date == <<"[", "s", "t", "a", "r", "t", " ", "d", "a", "t", "e", "]">>
D_onboarding_SOPs == <<"[", "o", "n", "b", "o", "a", "r", "d", "i", "n", "g", " ", "S", "O", "P", "s", "]">>
D_candidate_CV_text == <<"[", "c", "a", "n", "d", "i", "d", "a", "t", "e", " ", "C", "V", " ", "t", "e", "x", "t", "]">>
D_role_requirements == <<"[", "r", "o", "l", "e", " ", "r", "e", "q", "u", "i", "r", "e", "m", "e", "n", "t", "s", "]">>

(***************************************************************************)
(* prompt_templates.py.  A template is the sequence of its literal runs,   *)
(* each followed by the insertion point {field} that ends it ("" after the *)
(* last run).                                                              *)
(***************************************************************************)
ROLE_REFINEMENT_TEMPLATE ==
  <<
     [lit |-> "You are a recruitment assistant. Your job is to refine the role definition and produce inclusive Boolean search strings to find candidates.\nRole title: ",
      field |-> "role_title"],
     [lit |-> "\nLocation: ",
      field |-> "location"],
     [lit |-> "\nSeniority: ",
      field |-> "seniority"],
     [lit |-> "\nMust\\u2011have skills: ",
      field |-> "must_have"],
     [lit |-> "\nNice\\u2011to\\u2011have skills: ",
      field |-> "nice_to_have"],
     [lit |-> "\n\nSuggest alternate titles and generate a Boolean search string covering the role and key skills.",
      field |-> ""]
  >>

INCLUSIVE_JD_TEMPLATE ==
  <<
     [lit |-> "You are drafting a bias\\u2011free, inclusive job ad.  Use clear, neutral language and avoid gender coded terms.  Reflect the company's brand tone when provided.\nRole: ",
      field |-> "role_title"],
     [lit |-> "\nLocation: ",
      field |-> "location"],
     [lit |-> "\nSeniority: ",
      field |-> "seniority"],
     [lit |-> "\nResponsibilities: ",
      field |-> "responsibilities"],
     [lit |-> "\nRequirements: ",
      field |-> "requirements"],
     [lit |-> "\nBenefits: ",
      field |-> "benefits"],
     [lit |-> "\nBrand tone: ",
      field |-> "brand_tone"],
     [lit |-> "\n\nProduce a job advertisement with sections for Summary, Responsibilities, Requirements, Benefits and an Inclusion Statement.",
      field |-> ""]
  >>

OUTREACH_MESSAGE_TEMPLATE ==
  <<
     [lit |-> "You are writing a recruitment outreach message.  Keep it short, specific and respectful.  If a candidate name is provided, use it.\nCandidate name: ",
      field |-> "candidate_name"],
     [lit |-> "\nRole: ",
      field |-> "role_title"],
     [lit |-> "\nTop skills: ",
      field |-> "top_skills"],
     [lit |-> "\nValue proposition: ",
      field |-> "value_proposition"],
     [lit |-> "\nJob description link: ",
      field |-> "jd_link"],
     [lit |-> "\nTone: ",
      field |-> "tone"],
     [lit |-> "\n\nGenerate two outreach message variants with subject lines and calls to action.  Include an opt\\u2011out sentence if emailing.",
      field |-> ""]
  >>

SOURCING_PLAN_TEMPLATE ==
  <<
     [lit |-> "You are creating a sourcing plan and market map outline.\nRole: ",
      field |-> "role_title"],
     [lit |-> "\nLocation: ",
      field |-> "location"],
     [lit |-> "\nIndustry/domain: ",
      field |-> "industry"],
     [lit |-> "\nMust\\u2011have skills: ",
      field |-> "must_have"],
     [lit |-> "\n\nSuggest relevant channels (e.g., LinkedIn, communities, meetups), synonyms for titles, and key employers.  Provide the output as a bullet list or simple table ready for a spreadsheet.",
      field |-> ""]
  >>

INTERVIEW_GUIDE_TEMPLATE ==
  <<
     [lit |-> "You are generating an interview guide and scorecard.\nRole: ",
      field |-> "role_title"],
     [lit |-> "\nSeniority: ",
      field |-> "seniority"],
     [lit |-> "\nCompetencies to assess: ",
      field |-> "competencies"],
     [lit |-> "\nInterview stages: ",
      field |-> "stages"],
     [lit |-> "\n\nSuggest a balanced mix of technical and behavioural questions mapped to the competencies.  Provide a rubric for scoring (1\\u20135) with space for evidence.  Ensure fairness and accessibility.",
      field |-> ""]
  >>

TASK_TRIAGE_TEMPLATE ==
  <<
     [lit |-> "You are summarising the recruiting tasks and next actions for the day.\nOpen roles: ",
      field |-> "open_roles"],
     [lit |-> "\nCandidate stages: ",
      field |-> "candidate_stages"],
     [lit |-> "\nPending feedback: ",
      field |-> "pending_feedback"],
     [lit |-> "\nUpcoming interviews: ",
      field |-> "upcoming_interviews"],
     [lit |-> "\n\nProvide a prioritised task list and quick reminders.  Ask the user before scheduling or sending messages.",
      field |-> ""]
  >>

OFFER_HANDOVER_TEMPLATE ==
  <<
     [lit |-> "You are preparing an offer and onboarding handover.\nRole: ",
      field |-> "role_title"],
     [lit |-> "\nCandidate: ",
      field |-> "candidate_name"],
     [lit |-> "\nStart date: ",
      field |-> "start_date"],
     [lit |-> "\nLocation: ",
      field |-> "location"],
     [lit |-> "\nOnboarding SOPs: ",
      field |-> "onboarding_sops"],
     [lit |-> "\n\nGenerate a checklist of tasks: offer approval, letter sending, background checks, equipment and account setup, and day\\u2011one agenda.  Keep automation light and ensure human approval where required.",
      field |-> ""]
  >>

CANDIDATE_SUMMARY_TEMPLATE ==
  <<
     [lit |-> "You are summarising candidate profiles into bias\\u2011reduced briefs.\nCandidate CV: ",
      field |-> "candidate_cv"],
     [lit |-> "\nRole requirements: ",
      field |-> "role_requirements"],
     [lit |-> "\n\nExtract key achievements, skills and role fit notes.  Remove names, age and gender.  Present the summary in a consistent format.",
      field |-> ""]
  >>

MARKET_INSIGHTS_TEMPLATE ==
  <<
     [lit |-> "You are providing labor market insights and salary benchmarks.\nRole: ",
      field |-> "role_title"],
     [lit |-> "\nLocation: ",
      field |-> "location"],
     [lit |-> "\nSeniority: ",
      field |-> "seniority"],
     [lit |-> "\n\nRetrieve typical salary ranges, demand signals and assumptions.  State the data source and the recency of the information.",
      field |-> ""]
  >>

get_templates ==
  [role_refinement |-> ROLE_REFINEMENT_TEMPLATE,
   inclusive_jd |-> INCLUSIVE_JD_TEMPLATE,
   outreach_message |-> OUTREACH_MESSAGE_TEMPLATE,
   sourcing_plan |-> SOURCING_PLAN_TEMPLATE,
   interview_guide |-> INTERVIEW_GUIDE_TEMPLATE,
   task_triage |-> TASK_TRIAGE_TEMPLATE,
   offer_handover |-> OFFER_HANDOVER_TEMPLATE,
   candidate_summary |-> CANDIDATE_SUMMARY_TEMPLATE,
   market_insights |-> MARKET_INSIGHTS_TEMPLATE]

\* template.format(**kwargs): every insertion point is replaced by the value
\* passed for it, and a value is inserted as it is (it is not scanned again).
RECURSIVE format(_, _)
format(template, kwargs) ==
  IF template = <<>> THEN <<>>
  ELSE LET item == Head(template)
       IN <<item.lit>>
          \o (IF item.field = "" THEN <<>> ELSE kwargs[item.field])
          \o format(Tail(template), kwargs)

(***************************************************************************)
(* The handlers of ScoutAgent.                                             *)
(***************************************************************************)
\* The keyword arguments of the handlers with tone left out of those of
\* handle_outreach_message.
kwargs_without_tone(i, p) ==
  CASE i = "role_refinement" ->
         [role_title |-> dict_get(p, K_role_title, D_role_title),
          location |-> dict_get(p, K_location, D_location),
          seniority |-> dict_get(p, K_seniority, D_seniority),
          must_have |-> dict_get(p, K_must_have, D_must_have_skills),
          nice_to_have |-> dict_get(p, K_nice_to_have, D_nice_to_have_skills)]
    [] i = "inclusive_jd" ->
         [role_title |-> dict_get(p, K_role_title, D_role_title),
          location |-> dict_get(p, K_location, D_location),
          seniority |-> dict_get(p, K_seniority, D_seniority),
          responsibilities |-> dict_get(p, K_responsibilities, D_responsibilities),
          requirements |-> dict_get(p, K_requirements, D_requirements),
          benefits |-> dict_get(p, K_benefits, D_benefits),
          brand_tone |-> dict_get(p, K_brand_tone, D_neutral)]
    [] i = "outreach_message" ->
         [candidate_name |-> dict_get(p, K_candidate_name, D_candidate),
          role_title |-> dict_get(p, K_role_title, D_role_title),
          top_skills |-> dict_get(p, K_top_skills, D_top_skills),
          value_proposition |-> dict_get(p, K_value_proposition, D_value_proposition),
          jd_link |-> dict_get(p, K_jd_link, D_JD_link)]
    [] i = "sourcing_plan" ->
         [role_title |-> dict_get(p, K_role_title, D_role_title),
          location |-> dict_get(p, K_location, D_location),
          industry |-> dict_get(p, K_industry, D_industry_domain),
          must_have |-> dict_get(p, K_must_have, D_must_have_skills)]
    [] i = "interview_guide" ->
         [role_title |-> dict_get(p, K_role_title, D_role_title),
          seniority |-> dict_get(p, K_seniority, D_seniority),
          competencies |-> dict_get(p, K_competencies, D_competencies),
          stages |-> dict_get(p, K_stages, D_phone_technical_panel)]
    [] i = "task_triage" ->
         [open_roles |-> dict_get(p, K_open_roles, D_open_roles),
          candidate_stages |-> dict_get(p, K_candidate_stages, D_candidate_stages),
          pending_feedback |-> dict_get(p, K_pending_feedback, D_pending_feedback),
          upcoming_interviews |-> dict_get(p, K_upcoming_interviews, D_upcoming_interviews)]
    [] i = "offer_handover" ->
         [role_title |-> dict_get(p, K_role_title, D_role_title),
          candidate_name |-> dict_get(p, K_candidate_name, D_candidate),
          start_date |-> dict_get(p, K_start_date, D_start_date),
          location |-> dict_get(p, K_location, D_location),
          onboarding_sops |-> dict_get(p, K_onboarding_sops, D_onboarding_SOPs)]
    [] i = "candidate_summary" ->
         [candidate_cv |-> dict_get(p, K_candidate_cv, D_candidate_CV_text),
          role_requirements |-> dict_get(p, K_role_requirements, D_role_requirements)]
    [] i = "market_insights" ->
         [role_title |-> dict_get(p, K_role_title, D_role_title),
          location |-> dict_get(p, K_location, D_location),
          seniority |-> dict_get(p, K_seniority, D_seniority)]

\* The keyword arguments the handler of an intent passes to format: for each
\* the parameter of its name, or the default.
kwargs(i, p) ==
  CASE i = "role_refinement" ->
         [role_title |-> dict_get(p, K_role_title, D_role_title),
          location |-> dict_get(p, K_location, D_location),
          seniority |-> dict_get(p, K_seniority, D_seniority),
          must_have |-> dict_get(p, K_must_have, D_must_have_skills),
          nice_to_have |-> dict_get(p, K_nice_to_have, D_nice_to_have_skills)]
    [] i = "inclusive_jd" ->
         [role_title |-> dict_get(p, K_role_title, D_role_title),
          location |-> dict_get(p, K_location, D_location),
          seniority |-> dict_get(p, K_seniority, D_seniority),
          responsibilities |-> dict_get(p, K_responsibilities, D_responsibilities),
          requirements |-> dict_get(p, K_requirements, D_requirements),
          benefits |-> dict_get(p, K_benefits, D_benefits),
          brand_tone |-> dict_get(p, K_brand_tone, D_neutral)]
    [] i = "outreach_message" ->
         [candidate_name |-> dict_get(p, K_candidate_name, D_candidate),
          role_title |-> dict_get(p, K_role_title, D_role_title),
          top_skills |-> dict_get(p, K_top_skills, D_top_skills),
          value_proposition |-> dict_get(p, K_value_proposition, D_value_proposition),
          jd_link |-> dict_get(p, K_jd_link, D_JD_link),
          tone |-> dict_get(p, K_tone, D_professional)]
    [] i = "sourcing_plan" ->
         [role_title |-> dict_get(p, K_role_title, D_role_title),
          location |-> dict_get(p, K_location, D_location),
          industry |-> dict_get(p, K_industry, D_industry_domain),
          must_have |-> dict_get(p, K_must_have, D_must_have_skills)]
    [] i = "interview_guide" ->
         [role_title |-> dict_get(p, K_role_title, D_role_title),
          seniority |-> dict_get(p, K_seniority, D_seniority),
          competencies |-> dict_get(p, K_competencies, D_competencies),
          stages |-> dict_get(p, K_stages, D_phone_technical_panel)]
    [] i = "task_triage" ->
         [open_roles |-> dict_get(p, K_open_roles, D_open_roles),
          candidate_stages |-> dict_get(p, K_candidate_stages, D_candidate_stages),
          pending_feedback |-> dict_get(p, K_pending_feedback, D_pending_feedback),
          upcoming_interviews |-> dict_get(p, K_upcoming_interviews, D_upcoming_interviews)]
    [] i = "offer_handover" ->
         [role_title |-> dict_get(p, K_role_title, D_role_title),
          candidate_name |-> dict_get(p, K_candidate_name, D_candidate),
          start_date |-> dict_get(p, K_start_date, D_start_date),
          location |-> dict_get(p, K_location, D_location),
          onboarding_sops |-> dict_get(p, K_onboarding_sops, D_onboarding_SOPs)]
    [] i = "candidate_summary" ->
         [candidate_cv |-> dict_get(p, K_candidate_cv, D_candidate_CV_text),
          role_requirements |-> dict_get(p, K_role_requirements, D_role_requirements)]
    [] i = "market_insights" ->
         [role_title |-> dict_get(p, K_role_title, D_role_title),
          location |-> dict_get(p, K_location, D_location),
          seniority |-> dict_get(p, K_seniority, D_seniority)]

\* The keys of self.handlers.
handler_keys ==
  {"role_refinement", "inclusive_jd", "outreach_message", "sourcing_plan",
   "interview_guide", "task_triage", "offer_handover", "candidate_summary",
   "market_insights"}

handle_role_refinement(p) ==
  format(get_templates.role_refinement, kwargs("role_refinement", p))

handle_inclusive_jd(p) ==
  format(get_templates.inclusive_jd, kwargs("inclusive_jd", p))

\* handle_outreach_message with the defaults of two lines exchanged.
handle_outreach_message_swapped(p) ==
  format(get_templates.outreach_message,
    [candidate_name |-> dict_get(p, K_candidate_name, D_candidate),
     role_title |-> dict_get(p, K_role_title, D_top_skills),
     top_skills |-> dict_get(p, K_top_skills, D_role_title),
     value_proposition |-> dict_get(p, K_value_proposition, D_value_proposition),
     jd_link |-> dict_get(p, K_jd_link, D_JD_link),
     tone |-> dict_get(p, K_tone, D_professional)])

handle_outreach_message(p) ==
  format(get_templates.outreach_message, kwargs("outreach_message", p))

handle_sourcing_plan(p) ==
  format(get_templates.sourcing_plan, kwargs("sourcing_plan", p))

handle_interview_guide(p) ==
  format(get_templates.interview_guide, kwargs("interview_guide", p))

handle_task_triage(p) ==
  format(get_templates.task_triage, kwargs("task_triage", p))

handle_offer_handover(p) ==
  format(get_templates.offer_handover, kwargs("offer_handover", p))

handle_candidate_summary(p) ==
  format(get_templates.candidate_summary, kwargs("candidate_summary", p))

handle_market_insights(p) ==
  format(get_templates.market_insights, kwargs("market_insights", p))

\* self.handlers[intent](params)
handlers(i, p) ==
  CASE i = "role_refinement" -> handle_role_refinement(p)
    [] i = "inclusive_jd" -> handle_inclusive_jd(p)
    [] i = "outreach_message" -> handle_outreach_message(p)
    [] i = "sourcing_plan" -> handle_sourcing_plan(p)
    [] i = "interview_guide" -> handle_interview_guide(p)
    [] i = "task_triage" -> handle_task_triage(p)
    [] i = "offer_handover" -> handle_offer_handover(p)
    [] i = "candidate_summary" -> handle_candidate_summary(p)
    [] i = "market_insights" -> handle_market_insights(p)

\* The fixed reply of route_message to a message with no intent.
SORRY == <<"Sorry, I didn't understand your request. Could you please clarify?">>

\* route_message without the early return: a message with no intent is
\* handled as one of the first rule.
route_no_early_return(message) ==
  LET i == get_intent(message)
      j == IF i = None THEN patterns[1].intent ELSE i
      p == parse_params_from_message(message)
  IN [intent |-> j, params |-> p,
      calls |-> <<"get_intent", "parse_params_from_message", "handler">>,
      result |-> handlers(j, p)]

\* route_message with what it computed on the way: the intent, the parameters
\* (extracted only past the early return), the methods invoked, the text
\* returned.
route(message) ==
  LET i == get_intent(message)
  IN IF i = None
     THEN [intent |-> None, params |-> EmptyDict,
           calls |-> <<"get_intent">>, result |-> SORRY]
     ELSE LET p == parse_params_from_message(message)
          IN [intent |-> i, params |-> p,
              calls |-> <<"get_intent", "parse_params_from_message", "handler">>,
              result |-> handlers(i, p)]

route_message(message) == route(message).result

\* add_message inserting at the front.
add_message_front(h, role, content) == <<[role |-> role, content |-> content]>> \o h

\* add_message: history.append(Message(role, content))
add_message(h, role, content) == Append(h, [role |-> role, content |-> content])

(***************************************************************************)
(* The two generation scripts.  The reply of the generator is a text of    *)
(* tokens: the structural characters of JSON, white space, the code fence, *)
(* bare words (their characters) and string literals (the characters they  *)
(* stand for).  Words and string literals hold no brace, and no reply      *)
(* holds a number.  A JSON value is a record tagged with its type; a dict  *)
(* is a function from its keys, a list a sequence.                         *)
(***************************************************************************)
N_status == <<"s", "t", "a", "t", "u", "s">>
N_missing_info == <<"m", "i", "s", "s", "i", "n", "g", "_", "i", "n", "f", "o">>
N_job_description == <<"j", "o", "b", "_", "d", "e", "s", "c", "r", "i", "p", "t", "i", "o", "n">>
N_notes == <<"n", "o", "t", "e", "s">>
N_refined_role == <<"r", "e", "f", "i", "n", "e", "d", "_", "r", "o", "l", "e">>
N_boolean_search == <<"b", "o", "o", "l", "e", "a", "n", "_", "s", "e", "a", "r", "c", "h">>
N_related_titles == <<"r", "e", "l", "a", "t", "e", "d", "_", "t", "i", "t", "l", "e", "s">>
N_core_skills == <<"c", "o", "r", "e", "_", "s", "k", "i", "l", "l", "s">>
N_nice_to_have == <<"n", "i", "c", "e", "_", "t", "o", "_", "h", "a", "v", "e">>
N_industry_focus == <<"i", "n", "d", "u", "s", "t", "r", "y", "_", "f", "o", "c", "u", "s">>
N_linkedin == <<"l", "i", "n", "k", "e", "d", "i", "n">>
N_job_boards == <<"j", "o", "b", "_", "b", "o", "a", "r", "d", "s">>
N_main_title == <<"m", "a", "i", "n", "_", "t", "i", "t", "l", "e">>
N_seniority_level == <<"s", "e", "n", "i", "o", "r", "i", "t", "y", "_", "l", "e", "v", "e", "l">>
N_role == <<"r", "o", "l", "e">>
N_location == <<"l", "o", "c", "a", "t", "i", "o", "n">>
N_ok == <<"o", "k">>
N_needs_clarification == <<"n", "e", "e", "d", "s", "_", "c", "l", "a", "r", "i", "f", "i", "c", "a", "t", "i", "o", "n">>
N_error == <<"e", "r", "r", "o", "r">>
N_General == <<"G", "e", "n", "e", "r", "a", "l">>
N_title == <<"t", "i", "t", "l", "e">>
N_json == <<"j", "s", "o", "n">>

Tok(k, s) == [k |-> k, s |-> s]
LB == Tok("p", <<"{">>)
RB == Tok("p", <<"}">>)
LS == Tok("p", <<"[">>)
RS == Tok("p", <<"]">>)
COLON == Tok("p", <<":">>)
COMMA == Tok("p", <<",">>)
SP == Tok("ws", <<" ">>)
NL == Tok("ws", <<"\n">>)
\* The code fence, three backticks.
FENCE == Tok("fence", <<"fence">>)
Word(w) == Tok("word", w)
Str(chars) == Tok("str", chars)

JNull == [t |-> "null"]
JBool(b) == [t |-> "bool", v |-> b]
JStr(chars) == [t |-> "str", v |-> chars]
JList(items) == [t |-> "list", v |-> items]
JObj(members) == [t |-> "obj", v |-> members]

\* A call ends by returning a value or by raising an exception.
Exc(type, msg) == [type |-> type, msg |-> msg]
Return(value) == [kind |-> "return", value |-> value]
Raise(e) == [kind |-> "raise", exc |-> e]
Pending == [kind |-> "pending"]

\* str.strip, str.lstrip and str.split on the code fence, of a reply
RECURSIVE text_lstrip(_)
text_lstrip(text) ==
  IF text # <<>> /\ text[1].k = "ws" THEN text_lstrip(Tail(text)) ELSE text

RECURSIVE text_rstrip(_)
text_rstrip(text) ==
  IF text # <<>> /\ text[Len(text)].k = "ws"
  THEN text_rstrip(SubSeq(text, 1, Len(text) - 1)) ELSE text

text_strip(text) == text_rstrip(text_lstrip(text))

RECURSIVE split_fence(_)
split_fence(text) ==
  LET i == find(text, FENCE, 1)
  IN IF i = 0 THEN <<text>>
     ELSE <<SubSeq(text, 1, i - 1)>> \o split_fence(SubSeq(text, i + 1, Len(text)))

(***************************************************************************)
(* json.loads: a value, white space around it, and nothing after it.       *)
(***************************************************************************)
Parsed(value, next) == [ok |-> TRUE, val |-> value, next |-> next, msg |-> <<>>]
Failed(msg) == [ok |-> FALSE, val |-> JNull, next |-> 0, msg |-> <<msg>>]

RECURSIVE skip_ws(_, _)
skip_ws(text, i) ==
  IF i <= Len(text) /\ text[i].k = "ws" THEN skip_ws(text, i + 1) ELSE i

RECURSIVE parse_value(_, _)
RECURSIVE parse_members(_, _, _)
RECURSIVE parse_elements(_, _, _)

\* The value that starts at index i (white space skipped by the caller).
parse_value(text, i) ==
  IF i > Len(text) THEN Failed("Expecting value")
  ELSE LET tok == text[i]
       IN CASE tok.k = "str" -> Parsed(JStr(tok.s), i + 1)
            [] tok.k = "word" /\ tok.s = <<"n","u","l","l">> -> Parsed(JNull, i + 1)
            [] tok.k = "word" /\ tok.s = <<"t","r","u","e">> -> Parsed(JBool(TRUE), i + 1)
            [] tok.k = "word" /\ tok.s = <<"f","a","l","s","e">> -> Parsed(JBool(FALSE), i + 1)
            [] tok = LB ->
                 LET j == skip_ws(text, i + 1)
                 IN IF j <= Len(text) /\ text[j] = RB
                    THEN Parsed(JObj(EmptyDict), j + 1)
                    ELSE parse_members(text, j, EmptyDict)
            [] tok = LS ->
                 LET j == skip_ws(text, i + 1)
                 IN IF j <= Len(text) /\ text[j] = RS
                    THEN Parsed(JList(<<>>), j + 1)
                    ELSE parse_elements(text, j, <<>>)
            [] OTHER -> Failed("Expecting value")

\* The members of an object from index i, where a key is due; a key given
\* twice keeps its last value.
parse_members(text, i, acc) ==
  IF i > Len(text) \/ text[i].k # "str"
  THEN Failed("Expecting property name enclosed in double quotes")
  ELSE LET c == skip_ws(text, i + 1)
       IN IF c > Len(text) \/ text[c] # COLON THEN Failed("Expecting ':' delimiter")
          ELSE LET v == parse_value(text, skip_ws(text, c + 1))
               IN IF ~v.ok THEN v
                  ELSE LET e == skip_ws(text, v.next)
                           members == dict_set(acc, text[i].s, v.val)
                       IN IF e <= Len(text) /\ text[e] = RB
                          THEN Parsed(JObj(members), e + 1)
                          ELSE IF e <= Len(text) /\ text[e] = COMMA
                          THEN parse_members(text, skip_ws(text, e + 1), members)
                          ELSE Failed("Expecting ',' delimiter")

\* The elements of a list from index i, where a value is due.
parse_elements(text, i, acc) ==
  LET v == parse_value(text, i)
  IN IF ~v.ok THEN v
     ELSE LET e == skip_ws(text, v.next)
              items == Append(acc, v.val)
          IN IF e <= Len(text) /\ text[e] = RS
             THEN Parsed(JList(items), e + 1)
             ELSE IF e <= Len(text) /\ text[e] = COMMA
             THEN parse_elements(text, skip_ws(text, e + 1), items)
             ELSE Failed("Expecting ',' delimiter")

\* json.loads(text): the value, or the JSONDecodeError it raises.
json_loads(text) ==
  LET v == parse_value(text, skip_ws(text, 1))
  IN IF ~v.ok THEN Raise(Exc("JSONDecodeError", v.msg))
     ELSE IF skip_ws(text, v.next) <= Len(text)
     THEN Raise(Exc("JSONDecodeError", <<"Extra data">>))
     ELSE Return(v.val)

(***************************************************************************)
(* generate_inclusive_jd                                                   *)
(***************************************************************************)
\* bool(x) of None or a str
truthy(x) == x.t = "str" /\ x.v # <<>>

\* bool(x) of a JSON value
is_true(x) ==
  CASE x.t = "null" -> FALSE
    [] x.t = "bool" -> x.v
    [] OTHER -> x.v # <<>>

\* {"status": "error", "notes": notes}
error_result(notes) ==
  JObj(dict_set(dict_set(EmptyDict, N_status, JStr(N_error)), N_notes, JStr(notes)))

MISSING_KEY == <<"Missing Google API Key. Set GOOGLE_API_KEY in .env.">>
GENERATION_FAILED == <<"Generation failed: ">>

NoPrompt == [system |-> "", user |-> JNull]

\* The prompt: the system prompt and the caller's input put into it.
build_prompt(input) == [system |-> "SYSTEM_PROMPT", user |-> input]

\* {"status": "needs_clarification", "missing_info": ["role"],
\*  "job_description": {}}
NEEDS_ROLE ==
  JObj(dict_set(dict_set(dict_set(EmptyDict,
         N_status, JStr(N_needs_clarification)),
         N_missing_info, JList(<<JStr(N_role)>>)),
         N_job_description, JObj(EmptyDict)))

\* The start of generate_inclusive_jd with a check of the role put before the
\* prompt is built.
jd_start_role_check(input, arg_key, environ_key) ==
  LET key == IF truthy(arg_key) THEN arg_key ELSE environ_key
  IN IF ~truthy(key)
     THEN [pc |-> "returned", result |-> Return(error_result(MISSING_KEY)),
           prompt |-> NoPrompt]
     ELSE IF input.t # "obj" \/ ~is_true(dict_get(input.v, N_role, JNull))
     THEN [pc |-> "returned", result |-> Return(NEEDS_ROLE), prompt |-> NoPrompt]
     ELSE [pc |-> "prompt_built", result |-> Pending, prompt |-> build_prompt(input)]

\* Lines 163-185: the key is the argument or else the environment variable;
\* without a key the error result is returned, with one the prompt is built.
jd_start(input, arg_key, environ_key) ==
  LET key == IF truthy(arg_key) THEN arg_key ELSE environ_key
  IN IF ~truthy(key)
     THEN [pc |-> "returned", result |-> Return(error_result(MISSING_KEY)),
           prompt |-> NoPrompt]
     ELSE [pc |-> "prompt_built", result |-> Pending, prompt |-> build_prompt(input)]

\* text.startswith("json") and text[4:] of a text that starts so
starts_with_json(text) ==
  /\ text # <<>>
  /\ text[1].k = "word"
  /\ Len(text[1].s) >= Len(N_json)
  /\ SubSeq(text[1].s, 1, Len(N_json)) = N_json

drop_json(text) ==
  LET rest == SubSeq(text[1].s, Len(N_json) + 1, Len(text[1].s))
  IN IF rest = <<>> THEN Tail(text) ELSE <<Word(rest)>> \o Tail(text)

\* Lines 191-196: a reply that starts with the fence and holds a second one
\* is cut down to what stands between the two, less a leading "json".
unfence(text) ==
  IF text # <<>> /\ text[1] = FENCE
  THEN LET parts == split_fence(text)
       IN IF Len(parts) >= 3
          THEN IF starts_with_json(parts[2])
               THEN text_lstrip(drop_json(parts[2]))
               ELSE parts[2]
          ELSE text
  ELSE text

\* Lines 187-205: what generate_inclusive_jd returns once generate_content
\* has raised or has replied.
jd_finish(oc) ==
  IF oc.kind = "raise"
  THEN Return(error_result(GENERATION_FAILED \o oc.exc.msg))
  ELSE LET loaded == json_loads(unfence(text_strip(oc.value)))
       IN IF loaded.kind = "raise"
          THEN Return(error_result(GENERATION_FAILED \o loaded.exc.msg))
          ELSE loaded

(***************************************************************************)
(* run_role_refinement                                                     *)
(***************************************************************************)
\* type(x).__name__ of a JSON value
type_name(x) ==
  CASE x.t = "null" -> "NoneType"
    [] x.t = "bool" -> "bool"
    [] x.t = "str" -> "str"
    [] x.t = "list" -> "list"
    [] x.t = "obj" -> "dict"

\* What x.attr raises when type(x) has no such attribute.
AttributeError(x, attr) ==
  Exc("AttributeError",
      <<"'", type_name(x), "' object has no attribute '", attr, "'">>)

\* r"\{(?:[^{}]|(?:\{[^{}]*\}))*\}": the index of the closing brace of
\* \{[^{}]*\} whose opening brace stands before index p, or 0.
RECURSIVE flat_close(_, _)
flat_close(text, p) ==
  IF p > Len(text) THEN 0
  ELSE IF text[p] = RB THEN p
  ELSE IF text[p] = LB THEN 0
  ELSE flat_close(text, p + 1)

\* The index after the longest run of [^{}] and \{[^{}]*\} from index p.
RECURSIVE run_end(_, _)
run_end(text, p) ==
  IF p > Len(text) THEN p
  ELSE IF text[p] = RB THEN p
  ELSE IF text[p] = LB
  THEN LET q == flat_close(text, p + 1)
       IN IF q = 0 THEN p ELSE run_end(text, q + 1)
  ELSE run_end(text, p + 1)

\* re.search of the pattern from index s on: group(0), or <<>> for None.
RECURSIVE re_search_json(_, _)
re_search_json(text, s) ==
  IF s > Len(text) THEN <<>>
  ELSE IF text[s] = LB
  THEN LET e == run_end(text, s + 1)
       IN IF e <= Len(text) /\ text[e] = RB
          THEN SubSeq(text, s, e)
          ELSE re_search_json(text, s + 1)
  ELSE re_search_json(text, s + 1)

NO_JSON == <<"AI output did not contain valid JSON.">>

\* Lines 221-231: json.loads of the stripped reply, and on any exception
\* json.loads of what the pattern finds in it.
rr_parse(reply) ==
  LET raw == text_strip(reply)
      direct == json_loads(raw)
  IN IF direct.kind = "return" THEN direct
     ELSE LET json_match == re_search_json(raw, 1)
          IN IF json_match = <<>>
             THEN Raise(Exc("ValueError", NO_JSON))
             ELSE json_loads(json_match)

\* ord(c) in the order of the ASCII table
ASCII ==
  <<" ", "!", "\"", "#", "$", "%", "&", "'", "(", ")", "*", "+", ",", "-", ".", "/",
    "0", "1", "2", "3", "4", "5", "6", "7", "8", "9", ":", ";", "<", "=", ">", "?", "@">>
    \o UPPERCASE \o <<"[", "\\", "]", "^", "_">> \o LOWERCASE \o <<"{", "|", "}", "~">>

ord(c) == CHOOSE i \in 1..Len(ASCII) : ASCII[i] = c

\* a < b of two str
RECURSIVE str_lt(_, _)
str_lt(a, b) ==
  IF b = <<>> THEN FALSE
  ELSE IF a = <<>> THEN TRUE
  ELSE IF a[1] = b[1] THEN str_lt(Tail(a), Tail(b))
  ELSE ord(a[1]) < ord(b[1])

is_cased(c) == \E k \in 1..26 : c = UPPERCASE[k] \/ c = LOWERCASE[k]

upper_char(c) ==
  IF \E k \in 1..26 : LOWERCASE[k] = c
  THEN UPPERCASE[CHOOSE k \in 1..26 : LOWERCASE[k] = c]
  ELSE c

\* str.title: a cased character is in upper case after an uncased one and
\* at the start, in lower case after a cased one.
title(s) ==
  [i \in 1..Len(s) |->
     IF i > 1 /\ is_cased(s[i - 1]) THEN lower(<<s[i]>>)[1] ELSE upper_char(s[i])]

\* stabilize(values): sorted(set(values), key=str.lower) of a list, anything
\* else as it is.  set() raises on a list or a dict among the values,
\* str.lower on a value that is no str; the order a set is gone through in
\* is not fixed, so values that differ in case only come out in any order.
stabilize(values) ==
  IF values.t # "list" THEN {Return(values)}
  ELSE LET items == values.v
           unhashable == {i \in 1..Len(items) : items[i].t \in {"list", "obj"}}
           other == {i \in 1..Len(items) : items[i].t # "str"}
           distinct == {items[i] : i \in 1..Len(items)}
           n == Cardinality(distinct)
       IN IF unhashable # {}
          THEN LET first == CHOOSE i \in unhashable : \A j \in unhashable : i <= j
               IN {Raise(Exc("TypeError",
                     <<"unhashable type: '", type_name(items[first]), "'">>))}
          ELSE IF other # {}
          THEN {Raise(Exc("TypeError",
                  <<"descriptor 'lower' for 'str' objects doesn't apply to a '",
                    type_name(items[i]), "' object">>)) : i \in other}
          ELSE {Return(JList(order)) :
                  order \in {o \in [1..n -> distinct] :
                               /\ \A i, j \in 1..n : i # j => o[i] # o[j]
                               /\ \A i, j \in 1..n :
                                    i < j => ~str_lt(lower(o[j].v), lower(o[i].v))}}

\* clean_boolean_string(s)
clean_boolean_string(s) ==
  IF s.t # "str" THEN JStr(<<>>)
  ELSE JStr(strip(SelectSeq(s.v, LAMBDA c : c # "\\")))

\* rr[key] = stabilize(rr.get(key, []))
stabilize_field(rr, key) ==
  {IF o.kind = "raise" THEN o ELSE Return(dict_set(rr, key, o.value)) :
     o \in stabilize(dict_get(rr, key, JList(<<>>)))}

\* rr["industry_focus"] = rr.get("industry_focus", "").title() or "General"
standardize_industry(rr) ==
  LET focus == dict_get(rr, N_industry_focus, JStr(<<>>))
  IN IF focus.t # "str" THEN {Raise(AttributeError(focus, "title"))}
     ELSE {Return(dict_set(rr, N_industry_focus,
                    JStr(IF title(focus.v) = <<>> THEN N_General ELSE title(focus.v))))}

\* Lines 235-240 on rr, one statement after the other; the first exception
\* ends them.
normalize_role(rr) ==
  UNION {IF r1.kind = "raise" THEN {r1}
         ELSE UNION {IF r2.kind = "raise" THEN {r2}
                     ELSE UNION {IF r3.kind = "raise" THEN {r3}
                                 ELSE standardize_industry(r3.value) :
                                   r3 \in stabilize_field(r2.value, N_nice_to_have)} :
                       r2 \in stabilize_field(r1.value, N_core_skills)} :
           r1 \in stabilize_field(rr, N_related_titles)}

\* Lines 243-245 on the members of data.
clean_search(members) ==
  LET b == dict_get(members, N_boolean_search, JObj(EmptyDict))
  IN IF b.t # "obj" THEN {Raise(AttributeError(b, "get"))}
     ELSE LET b1 == dict_set(b.v, N_linkedin,
                      clean_boolean_string(dict_get(b.v, N_linkedin, JStr(<<>>))))
              b2 == dict_set(b1, N_job_boards,
                      clean_boolean_string(dict_get(b1, N_job_boards, JStr(<<>>))))
          IN {Return(JObj(IF N_boolean_search \in DOMAIN members
                          THEN dict_set(members, N_boolean_search, JObj(b2))
                          ELSE members))}

\* Lines 234-245: the lists sorted, the industry focus in title case, the
\* search strings cleaned.  A dict that data.get makes up for a missing key
\* is not put into data.
rr_normalize(d) ==
  IF d.t # "obj" THEN {Raise(AttributeError(d, "get"))}
  ELSE LET rr == dict_get(d.v, N_refined_role, JObj(EmptyDict))
       IN IF rr.t # "obj" THEN {Raise(AttributeError(rr, "get"))}
          ELSE UNION {IF r.kind = "raise" THEN {r}
                      ELSE clean_search(IF N_refined_role \in DOMAIN d.v
                                        THEN dict_set(d.v, N_refined_role, JObj(r.value))
                                        ELSE d.v) :
                        r \in normalize_role(rr.v)}

\* The field types of the pydantic models.
valid_str(x) == x.t = "str"
valid_str_list(x) == x.t = "list" /\ \A i \in 1..Len(x.v) : x.v[i].t = "str"
valid_status(x) == x.t = "str" /\ x.v \in {N_ok, N_needs_clarification}

RefinedRole == {N_main_title, N_related_titles, N_core_skills, N_nice_to_have,
                N_seniority_level, N_industry_focus}
BooleanSearch == {N_linkedin, N_job_boards}
RoleRefinementOutput == {N_status, N_missing_info, N_refined_role,
                         N_boolean_search, N_notes}

valid_refined_role(x) ==
  /\ x.t = "obj"
  /\ N_main_title \in DOMAIN x.v /\ valid_str(x.v[N_main_title])
  /\ N_related_titles \in DOMAIN x.v /\ valid_str_list(x.v[N_related_titles])
  /\ N_core_skills \in DOMAIN x.v /\ valid_str_list(x.v[N_core_skills])
  /\ N_nice_to_have \in DOMAIN x.v /\ valid_str_list(x.v[N_nice_to_have])
  /\ N_seniority_level \in DOMAIN x.v /\ valid_str(x.v[N_seniority_level])
  /\ N_industry_focus \in DOMAIN x.v /\ valid_str(x.v[N_industry_focus])

valid_boolean_search(x) ==
  /\ x.t = "obj"
  /\ N_linkedin \in DOMAIN x.v /\ valid_str(x.v[N_linkedin])
  /\ N_job_boards \in DOMAIN x.v /\ valid_str(x.v[N_job_boards])

VALIDATION_ERROR == <<"validation error for RoleRefinementOutput">>

\* Line 248: RoleRefinementOutput(**data), the model of the declared fields
\* or the ValidationError.
validate(d) ==
  IF /\ N_status \in DOMAIN d.v /\ valid_status(d.v[N_status])
     /\ N_missing_info \in DOMAIN d.v /\ valid_str_list(d.v[N_missing_info])
     /\ N_refined_role \in DOMAIN d.v /\ valid_refined_role(d.v[N_refined_role])
     /\ N_boolean_search \in DOMAIN d.v /\ valid_boolean_search(d.v[N_boolean_search])
     /\ N_notes \in DOMAIN d.v /\ valid_str(d.v[N_notes])
  THEN Return(JObj([k \in RoleRefinementOutput |->
                      CASE k = N_refined_role ->
                             JObj([f \in RefinedRole |-> d.v[k].v[f]])
                        [] k = N_boolean_search ->
                             JObj([f \in BooleanSearch |-> d.v[k].v[f]])
                        [] OTHER -> d.v[k]]))
  ELSE Raise(Exc("ValidationError", VALIDATION_ERROR))

(***************************************************************************)
(* The inputs the operations are run on.                                   *)
(***************************************************************************)
\* The most turns of the chat loop, and the most segments of a parameter
\* block put together from SegPool.
MaxTurns == 2
MaxSegs == 2

T_hello == <<"h", "e", "l", "l", "o", " ", "t", "h", "e", "r", "e">>
T_upper == <<"B", "o", "o", "l", "e", "a", "n", " ", "S", "e", "a", "r", "c", "h">>
T_research == <<"r", "e", "s", "e", "a", "r", "c", "h">>
T_searching == <<"s", "e", "a", "r", "c", "h", "i", "n", "g">>
T_messages == <<"m", "e", "s", "s", "a", "g", "e", "s">>
T_outreaching == <<"o", "u", "t", "r", "e", "a", "c", "h", "i", "n", "g">>
T_offers == <<"o", "f", "f", "e", "r", "s">>
T_remessage == <<"r", "e", "m", "e", "s", "s", "a", "g", "e">>
T_two_rules == <<"b", "o", "o", "l", "e", "a", "n", " ", "j", "o", "b", " ", "d", "e", "s", "c", "r", "i", "p", "t", "i", "o", "n">>
T_two_rules_rev == <<"j", "o", "b", " ", "d", "e", "s", "c", "r", "i", "p", "t", "i", "o", "n", " ", "b", "o", "o", "l", "e", "a", "n">>
T_late_rules == <<"s", "u", "m", "m", "a", "r", "y", " ", "o", "f", " ", "t", "h", "e", " ", "o", "f", "f", "e", "r">>
T_please == <<"p", "l", "e", "a", "s", "e", " ", "d", "r", "a", "f", "t", " ", "j", "d", " ", "n", "o", "w">>
T_exit == <<"e", "x", "i", "t">>
T_quit_upper == <<" ", "Q", "U", "I", "T", " ">>
T_x == <<"x">>
T_y_z == <<"y", " ", "z">>
T_a_eq_b == <<"a", "=", "b">>
T_a_colon_b == <<"a", ":", "b">>
T_noequals == <<"n", "o", "e", "q", "u", "a", "l", "s">>

\* The declared insertion points of a template, in its order, and the
\* parameter name of each.
Fields(template) ==
  LET named == SelectSeq(template, LAMBDA item : item.field # "")
  IN [i \in 1..Len(named) |-> named[i].field]

KeyOf ==
  [role_title |-> K_role_title, location |-> K_location, seniority |-> K_seniority,
   must_have |-> K_must_have, nice_to_have |-> K_nice_to_have,
   responsibilities |-> K_responsibilities, requirements |-> K_requirements,
   benefits |-> K_benefits, brand_tone |-> K_brand_tone,
   candidate_name |-> K_candidate_name, top_skills |-> K_top_skills,
   value_proposition |-> K_value_proposition, jd_link |-> K_jd_link, tone |-> K_tone,
   industry |-> K_industry, competencies |-> K_competencies, stages |-> K_stages,
   open_roles |-> K_open_roles, candidate_stages |-> K_candidate_stages,
   pending_feedback |-> K_pending_feedback,
   upcoming_interviews |-> K_upcoming_interviews, start_date |-> K_start_date,
   onboarding_sops |-> K_onboarding_sops, candidate_cv |-> K_candidate_cv,
   role_requirements |-> K_role_requirements]

Intents == {patterns[i].intent : i \in 1..Len(patterns)}

\* key=value
Seg(key, value) == key \o <<"=">> \o value

\* sep.join(segs)
RECURSIVE Join(_, _)
Join(segs, sep) ==
  IF segs = <<>> THEN <<>>
  ELSE IF Len(segs) = 1 THEN segs[1]
  ELSE segs[1] \o sep \o Join(Tail(segs), sep)

\* ": k1=v, k2=v, ..." over the declared fields of an intent but omit.
FullBlock(i, value, omit) ==
  LET fs == SelectSeq(Fields(get_templates[i]), LAMBDA f : f # omit)
  IN <<":", " ">> \o Join([n \in 1..Len(fs) |-> Seg(KeyOf[fs[n]], value)], <<",", " ">>)

\* The values a full block is written with: plain, empty, one that reads as a
\* keyword of the first rule, ones holding a later equals sign or colon, and
\* one that is itself the text of a default.
T_braces == <<"{", "x", "}", "{", "}">>
Values == {T_x, <<>>, KW_search, T_a_eq_b, T_a_colon_b, D_role_title, T_braces}

FullBlocks(i) ==
  {FullBlock(i, v, "") : v \in Values}
    \cup {FullBlock(i, T_x, Fields(get_templates[i])[n]) :
            n \in 1..Len(Fields(get_templates[i]))}

\* Segments a short block is put together from: a repeated key, an empty
\* value, padding around key and value, no equals sign, an empty key, a
\* keyword as value.
SegPool ==
  { Seg(K_role_title, T_x), Seg(K_role_title, T_y_z), Seg(K_role_title, <<>>),
    <<" ">> \o K_location \o <<" ", "=", " ">> \o T_y_z \o <<" ">>,
    T_noequals, Seg(<<>>, T_x), Seg(K_stages, KW_message) }

SegLists == UNION {[1..n -> SegPool] : n \in 0..MaxSegs}

ShortBlocks == {<<>>} \cup {<<":">> \o Join(segs, <<",">>) : segs \in SegLists}

\* What comes before the block: one phrase per rule, and phrases that test
\* letter case, the word boundaries and the order of the rules.
RuleHeads ==
  [role_refinement |-> KW_role_refinement, inclusive_jd |-> KW_job_description,
   outreach_message |-> KW_outreach, sourcing_plan |-> KW_sourcing,
   interview_guide |-> KW_interview_guide, task_triage |-> KW_task_triage,
   offer_handover |-> KW_offer, candidate_summary |-> KW_summary,
   market_insights |-> KW_market_insight]

Keywords ==
  UNION {{patterns[r].pattern[a].word : a \in 1..Len(patterns[r].pattern)} :
           r \in 1..Len(patterns)}

OddHeads ==
  {<<>>, T_hello, T_upper, T_research, T_searching, T_messages, T_outreaching,
   T_offers, T_remessage, T_two_rules, T_two_rules_rev, T_late_rules, T_please}

CrossHeads == {T_hello, T_upper, KW_job_description, KW_message}

Messages ==
  {h \o b : h \in CrossHeads, b \in ShortBlocks}
    \cup (Keywords \cup OddHeads)
    \cup {h \o FullBlock("role_refinement", T_x, "") : h \in Keywords \cup OddHeads}
    \cup UNION {{RuleHeads[i] \o b : b \in FullBlocks(i)} : i \in Intents}
    \cup UNION {{T_hello \o b : b \in FullBlocks(i)} : i \in Intents}

\* The lines typed into the chat, as input() returns them.
ChatLines ==
  {T_hello, <<" ">> \o T_upper \o <<" ">>, T_messages, T_two_rules,
   KW_job_description \o <<":">> \o Seg(K_role_title, T_x),
   KW_offer \o <<":">> \o Seg(K_role_title, <<>>),
   KW_outreach \o <<":">> \o Seg(K_location, T_y_z) \o <<",">> \o Seg(K_location, T_x),
   KW_scorecard, T_exit, T_quit_upper}

(***************************************************************************)
(* What the generation scripts are called with, and what generate_content  *)
(* does: it raises, or it replies with a text.                             *)
(***************************************************************************)
V_engineer == <<"e", "n", "g", "i", "n", "e", "e", "r">>
V_Engineer == <<"E", "n", "g", "i", "n", "e", "e", "r">>
V_python == <<"p", "y", "t", "h", "o", "n">>
V_Python == <<"P", "y", "t", "h", "o", "n">>
V_go == <<"g", "o">>
V_fin_tech == <<"f", "i", "n", " ", "T", "E", "C", "H">>
V_done == <<"d", "o", "n", "e">>
V_query == <<" ", "a", "\\", "b", " ">>
V_key == <<"k", "e", "y">>

\* api_key and os.getenv("GOOGLE_API_KEY"): None, "" or a key
Keys == {JNull, JStr(<<>>), JStr(V_key)}

JdInputs ==
  {JObj(EmptyDict),
   JObj(dict_set(EmptyDict, N_role, JStr(<<>>))),
   JObj(dict_set(EmptyDict, N_location, JStr(V_go))),
   JObj(dict_set(EmptyDict, N_role, JStr(V_engineer))),
   JObj(dict_set(dict_set(EmptyDict, N_role, JStr(V_engineer)), N_location, JStr(V_go)))}

RrInputs == {JStr(<<>>), JStr(V_engineer)}

\* The text of a JSON string, null, object and array, as json.dumps writes them.
Quoted(chars) == <<Str(chars)>>
NULL == <<Word(<<"n", "u", "l", "l">>)>>
Member(key, value) == <<Str(key), COLON, SP>> \o value
Object(members) == <<LB>> \o Join(members, <<COMMA, SP>>) \o <<RB>>
Array(items) == <<LS>> \o Join(items, <<COMMA, SP>>) \o <<RS>>

\* The replies the system prompts ask for.
R_jd_needs ==
  Object(<<Member(N_status, Quoted(N_needs_clarification)),
           Member(N_missing_info, Array(<<Quoted(N_role)>>)),
           Member(N_job_description, Object(<<>>))>>)

R_jd_ok ==
  Object(<<Member(N_status, Quoted(N_ok)),
           Member(N_missing_info, Array(<<>>)),
           Member(N_job_description, Object(<<Member(N_title, Quoted(V_Engineer))>>)),
           Member(N_notes, Quoted(<<>>))>>)

R_rr_needs ==
  Object(<<Member(N_status, Quoted(N_needs_clarification)),
           Member(N_missing_info, Array(<<Quoted(N_role)>>)),
           Member(N_refined_role, NULL),
           Member(N_boolean_search, NULL),
           Member(N_notes, Quoted(<<>>))>>)

M_main_title == Member(N_main_title, Quoted(V_Engineer))
M_related_titles == Member(N_related_titles, Array(<<Quoted(V_python), Quoted(V_go), Quoted(V_python)>>))
M_core_skills == Member(N_core_skills, Array(<<Quoted(V_python), Quoted(V_Python)>>))
M_nice_to_have == Member(N_nice_to_have, Array(<<>>))
M_seniority_level == Member(N_seniority_level, Quoted(V_go))
M_industry_focus == Member(N_industry_focus, Quoted(V_fin_tech))
M_linkedin == Member(N_linkedin, Quoted(V_query))
M_job_boards == Member(N_job_boards, Quoted(V_go))

R_role == <<M_main_title, M_related_titles, M_core_skills, M_nice_to_have,
            M_seniority_level, M_industry_focus>>
R_search == <<M_linkedin, M_job_boards>>

\* An "ok" reply of the role refinement with the given status, refined_role
\* and boolean_search.
RrReply(status, role, search) ==
  Object(<<Member(N_status, Quoted(status)),
           Member(N_missing_info, Array(<<>>)),
           Member(N_refined_role, role),
           Member(N_boolean_search, search),
           Member(N_notes, Quoted(<<>>))>>)

R_rr_ok == RrReply(N_ok, Object(R_role), Object(R_search))

\* The same with a member the schema does not know put first, an object
\* with an object in it.
R_rr_deep ==
  Object(<<Member(N_job_description, Object(<<Member(N_title, Object(<<>>))>>)),
           Member(N_status, Quoted(N_ok)),
           Member(N_missing_info, Array(<<>>)),
           Member(N_refined_role,
                  Object(<<M_main_title, Member(N_related_titles, Array(<<>>)),
                           Member(N_core_skills, Array(<<Quoted(V_go)>>)),
                           M_nice_to_have, M_seniority_level, M_industry_focus>>)),
           Member(N_boolean_search, Object(R_search)),
           Member(N_notes, Quoted(<<>>))>>)

\* The same with a member left out, a value of another type, a status the
\* schema does not know, and without refined_role.
R_rr_odd ==
  {RrReply(N_ok, Object(SelectSeq(R_role, LAMBDA m : m # M_related_titles)),
           Object(R_search)),
   RrReply(N_ok, Object(SelectSeq(R_role, LAMBDA m : m # M_industry_focus)),
           Object(R_search)),
   RrReply(N_ok, Object(SelectSeq(R_role, LAMBDA m : m # M_main_title)),
           Object(R_search)),
   RrReply(N_ok, Object(R_role), Object(<<M_linkedin>>)),
   RrReply(N_ok, Object(R_role), Object(<<Member(N_linkedin, NULL), M_job_boards>>)),
   RrReply(N_ok, Object(<<M_main_title, Member(N_core_skills, Array(<<Quoted(V_go), NULL>>))>>),
           Object(R_search)),
   RrReply(N_ok, Object(<<M_main_title, Member(N_core_skills, Array(<<Array(<<>>)>>))>>),
           Object(R_search)),
   RrReply(N_ok, Object(<<M_main_title, Member(N_industry_focus, NULL)>>),
           Object(R_search)),
   RrReply(N_ok, Quoted(V_engineer), Object(R_search)),
   RrReply(N_ok, Object(R_role), Quoted(V_go)),
   RrReply(V_done, Object(R_role), Object(R_search)),
   Object(<<Member(N_status, Quoted(N_ok)), Member(N_missing_info, Array(<<>>)),
            Member(N_notes, Quoted(<<>>))>>)}

\* Prose around a reply, a reply in a fence with and without the language
\* tag, and a fence that is not closed.
PROSE == <<Word(<<"S", "u", "r", "e">>), SP>>
InProse(text) == PROSE \o text \o <<SP, Word(V_done)>>
Fenced(text) == <<FENCE, Word(N_json), NL>> \o text \o <<NL, FENCE>>
FencedBare(text) == <<FENCE, NL>> \o text \o <<NL, FENCE, NL>>
FenceOpen(text) == <<FENCE, Word(N_json), NL>> \o text

Wrapped(text) ==
  {<<NL>> \o text \o <<SP>>, InProse(text), Fenced(text), FencedBare(text),
   FenceOpen(text)}

\* Replies that are no JSON object, or hold more than one, or one nested
\* deeper than the pattern of run_role_refinement reaches.
R_broken ==
  {<<>>, PROSE, Array(<<>>), Quoted(N_ok), NULL,
   <<LB, Str(N_status), COLON>>,
   InProse(Object(<<Member(N_status, Quoted(N_ok))>>) \o <<SP>> \o Object(<<>>)),
   InProse(Object(<<Member(N_refined_role,
                      Object(<<Member(N_main_title, Object(<<>>))>>))>>)),
   InProse(Object(<<Member(N_status, Quoted(N_ok)), Quoted(N_notes)>>)),
   InProse(Array(<<>>))}

\* The replies that are put between fences as well.
FenceBodies == {R_jd_needs, R_jd_ok, R_rr_needs, R_rr_ok}

Replies ==
  FenceBodies \cup R_rr_odd \cup R_broken
    \cup UNION {Wrapped(r) : r \in FenceBodies}
    \cup {R_rr_deep, Fenced(R_rr_deep), Array(<<>>), Fenced(Array(<<>>))}

\* What generate_content raises when the service fails, what response.text
\* raises when the reply holds no text, and what the call raises when no
\* credential was configured.
GenerateErrors ==
  {Exc("ServiceUnavailable", <<"503 The service is currently unavailable.">>),
   Exc("ValueError", <<"Invalid operation: The response.text quick accessor requires the response to contain a valid Part.">>)}

NO_CREDENTIALS == Exc("DefaultCredentialsError", <<"No API_KEY or ADC found.">>)

Outcomes == {Raise(e) : e \in GenerateErrors} \cup {Return(r) : r \in Replies}

\* No call of a generation script has been made.
NoCall ==
  /\ adapter = "none"
  /\ a_pc = "idle"
  /\ api_key = JNull
  /\ env_key = JNull
  /\ input_data = JNull
  /\ prompt = NoPrompt
  /\ model_calls = 0
  /\ outcome = Pending
  /\ data = JNull
  /\ trail = <<"idle">>
  /\ result = Pending

(***************************************************************************)
(* run_chat: one action per way through one iteration of the while loop.   *)
(***************************************************************************)
Idle ==
  /\ history = <<>>
  /\ op = "init"
  /\ user_input = <<>>
  /\ intent = None
  /\ params = EmptyDict
  /\ calls = <<>>
  /\ response = <<>>

\* user_input.lower() in {"exit", "quit"}
is_exit(line) == lower(line) \in {<<"e","x","i","t">>, <<"q","u","i","t">>}

\* ChatTurn, were the parameters of one agent kept from message to message
\* and those of a new message written over them.
ChatTurn_params_kept ==
  /\ chat_pc = "running"
  /\ Len(history) < 2 * MaxTurns
  /\ \E line \in ChatLines :
       LET stripped == strip(line)
           r == route(stripped)
           kept == [k \in DOMAIN params \cup DOMAIN r.params |->
                      IF k \in DOMAIN r.params THEN r.params[k] ELSE params[k]]
       IN /\ ~is_exit(stripped)
          /\ user_input' = stripped
          /\ intent' = r.intent
          /\ params' = kept
          /\ calls' = r.calls
          /\ response' = IF r.intent = None THEN r.result ELSE handlers(r.intent, kept)
          /\ history' = add_message(add_message(history, "user", stripped),
                                    "assistant", response')
  /\ op' = "run_chat"
  /\ UNCHANGED <<chat_pc, gen_vars>>

\* Lines 30-33: the user message, the routed response, the assistant message.
ChatTurn ==
  /\ chat_pc = "running"
  /\ Len(history) < 2 * MaxTurns
  /\ \E line \in ChatLines :
       LET stripped == strip(line)
           r == route(stripped)
       IN /\ ~is_exit(stripped)
          /\ user_input' = stripped
          /\ intent' = r.intent
          /\ params' = r.params
          /\ calls' = r.calls
          /\ response' = r.result
          /\ history' = add_message(add_message(history, "user", stripped),
                                    "assistant", r.result)
  /\ op' = "run_chat"
  /\ UNCHANGED <<chat_pc, gen_vars>>

\* Lines 27-29: exit or quit breaks the loop before anything is recorded.
ChatQuit ==
  /\ chat_pc = "running"
  /\ \E line \in ChatLines :
       /\ is_exit(strip(line))
       /\ user_input' = strip(line)
  /\ chat_pc' = "exited"
  /\ op' = "run_chat"
  /\ UNCHANGED <<history, intent, params, calls, response, gen_vars>>

\* Lines 24-26: EOFError or KeyboardInterrupt from input() breaks the loop.
ChatInterrupt ==
  /\ chat_pc = "running"
  /\ chat_pc' = "exited"
  /\ op' = "run_chat"
  /\ UNCHANGED <<history, user_input, intent, params, calls, response, gen_vars>>

InitChat == Idle /\ chat_pc = "running" /\ NoCall

NextChat == ChatTurn \/ ChatQuit \/ ChatInterrupt

SpecChat == InitChat /\ [][NextChat]_vars

(***************************************************************************)
(* The methods of ScoutAgent called on one message each.                   *)
(***************************************************************************)
InitRoute ==
  /\ history = <<>>
  /\ chat_pc = "none"
  /\ op = "init"
  /\ user_input \in Messages
  /\ intent = None
  /\ params = EmptyDict
  /\ calls = <<>>
  /\ response = <<>>
  /\ NoCall

RouteMessage ==
  /\ op = "init"
  /\ op' = "route_message"
  /\ LET r == route(user_input)
     IN /\ intent' = r.intent
        /\ params' = r.params
        /\ calls' = r.calls
        /\ response' = r.result
  /\ UNCHANGED <<history, chat_pc, user_input, gen_vars>>

GetIntent ==
  /\ op = "init"
  /\ op' = "get_intent"
  /\ intent' = get_intent(user_input)
  /\ calls' = <<"get_intent">>
  /\ UNCHANGED <<history, chat_pc, user_input, params, response, gen_vars>>

ParseParams ==
  /\ op = "init"
  /\ op' = "parse_params_from_message"
  /\ params' = parse_params_from_message(user_input)
  /\ calls' = <<"parse_params_from_message">>
  /\ UNCHANGED <<history, chat_pc, user_input, intent, response, gen_vars>>

NextRoute == RouteMessage \/ GetIntent \/ ParseParams

SpecRoute == InitRoute /\ [][NextRoute]_vars

(***************************************************************************)
(* One call of a generation script, step by step.  a_pc is where the call  *)
(* stands: "idle", "prompt_built", "model_invoked", "parsed", "normalized", *)
(* and "returned" or "raised" at its end.                                  *)
(***************************************************************************)
InitGen == Idle /\ chat_pc = "none" /\ NoCall

\* generate_inclusive_jd(input_data, api_key) up to generate_content
JdCall ==
  /\ a_pc = "idle"
  /\ \E input \in JdInputs, arg_key \in Keys, environ_key \in Keys :
       LET s == jd_start(input, arg_key, environ_key)
       IN /\ input_data' = input
          /\ api_key' = arg_key
          /\ env_key' = environ_key
          /\ a_pc' = s.pc
          /\ prompt' = s.prompt
          /\ result' = s.result
          /\ trail' = Append(trail, s.pc)
  /\ adapter' = "jd"
  /\ UNCHANGED <<model_calls, outcome, data, chat_vars>>

\* Line 188: model.generate_content(prompt) and response.text
JdInvoke ==
  /\ adapter = "jd"
  /\ a_pc = "prompt_built"
  /\ outcome' \in Outcomes
  /\ model_calls' = model_calls + 1
  /\ a_pc' = "model_invoked"
  /\ trail' = Append(trail, "model_invoked")
  /\ UNCHANGED <<adapter, api_key, env_key, input_data, prompt, data, result, chat_vars>>

\* Lines 189-205: the reply parsed and returned, or the error result
JdFinish ==
  /\ adapter = "jd"
  /\ a_pc = "model_invoked"
  /\ result' = jd_finish(outcome)
  /\ a_pc' = "returned"
  /\ trail' = Append(trail, "returned")
  /\ UNCHANGED <<adapter, api_key, env_key, input_data, prompt, model_calls, outcome,
                 data, chat_vars>>

\* run_role_refinement(user_input) up to generate_content; genai.configure()
\* at import has taken the key from the environment.
RrCall ==
  /\ a_pc = "idle"
  /\ input_data' \in RrInputs
  /\ env_key' \in Keys
  /\ prompt' = build_prompt(input_data')
  /\ adapter' = "rr"
  /\ a_pc' = "prompt_built"
  /\ trail' = Append(trail, "prompt_built")
  /\ UNCHANGED <<api_key, model_calls, outcome, data, result, chat_vars>>

\* Lines 220-221: generate_content and response.text; what they raise is
\* raised to the caller.
RrInvoke ==
  /\ adapter = "rr"
  /\ a_pc = "prompt_built"
  /\ outcome' \in IF truthy(env_key) THEN Outcomes ELSE {Raise(NO_CREDENTIALS)}
  /\ model_calls' = model_calls + 1
  /\ a_pc' = IF outcome'.kind = "raise" THEN "raised" ELSE "model_invoked"
  /\ result' = IF outcome'.kind = "raise" THEN outcome' ELSE result
  /\ trail' = Append(trail, a_pc')
  /\ UNCHANGED <<adapter, api_key, env_key, input_data, prompt, data, chat_vars>>

\* RrParse, were a reply that cannot be parsed answered by asking the model
\* again.
RrParse_retry ==
  /\ adapter = "rr"
  /\ a_pc = "model_invoked"
  /\ LET parsed == rr_parse(outcome.value)
     IN /\ a_pc' = IF parsed.kind = "raise" THEN "prompt_built" ELSE "parsed"
        /\ data' = IF parsed.kind = "raise" THEN data ELSE parsed.value
        /\ result' = result
  /\ trail' = Append(trail, a_pc')
  /\ UNCHANGED <<adapter, api_key, env_key, input_data, prompt, model_calls, outcome,
                 chat_vars>>

\* Lines 221-231
RrParse ==
  /\ adapter = "rr"
  /\ a_pc = "model_invoked"
  /\ LET parsed == rr_parse(outcome.value)
     IN /\ a_pc' = IF parsed.kind = "raise" THEN "raised" ELSE "parsed"
        /\ data' = IF parsed.kind = "raise" THEN data ELSE parsed.value
        /\ result' = IF parsed.kind = "raise" THEN parsed ELSE result
  /\ trail' = Append(trail, a_pc')
  /\ UNCHANGED <<adapter, api_key, env_key, input_data, prompt, model_calls, outcome,
                 chat_vars>>

\* Lines 234-245
RrNormalize ==
  /\ adapter = "rr"
  /\ a_pc = "parsed"
  /\ \E normalized \in rr_normalize(data) :
       /\ a_pc' = IF normalized.kind = "raise" THEN "raised" ELSE "normalized"
       /\ data' = IF normalized.kind = "raise" THEN data ELSE normalized.value
       /\ result' = IF normalized.kind = "raise" THEN normalized ELSE result
  /\ trail' = Append(trail, a_pc')
  /\ UNCHANGED <<adapter, api_key, env_key, input_data, prompt, model_calls, outcome,
                 chat_vars>>

\* Line 248
RrValidate ==
  /\ adapter = "rr"
  /\ a_pc = "normalized"
  /\ result' = validate(data)
  /\ a_pc' = IF result'.kind = "raise" THEN "raised" ELSE "returned"
  /\ trail' = Append(trail, a_pc')
  /\ UNCHANGED <<adapter, api_key, env_key, input_data, prompt, model_calls, outcome,
                 data, chat_vars>>

NextGen ==
  JdCall \/ JdInvoke \/ JdFinish \/ RrCall \/ RrInvoke \/ RrParse \/ RrNormalize
    \/ RrValidate

SpecGen == InitGen /\ [][NextGen]_vars

(***************************************************************************)
(* stabilize called on a list of str, and again on what it returned.       *)
(***************************************************************************)
\* The most values of a list handed to stabilize.
MaxList == 3

StabilizeValues == {JStr(<<"a">>), JStr(<<"A">>), JStr(<<"b">>)}

StabilizeLists == {JList(l) : l \in UNION {[1..n -> StabilizeValues] : n \in 0..MaxList}}

InitStabilize ==
  /\ Idle
  /\ chat_pc = "none"
  /\ adapter = "stabilize"
  /\ a_pc = "idle"
  /\ api_key = JNull
  /\ env_key = JNull
  /\ input_data \in StabilizeLists
  /\ prompt = NoPrompt
  /\ model_calls = 0
  /\ outcome = Pending
  /\ data = JNull
  /\ trail = <<"idle">>
  /\ result = Pending

\* stabilize(values)
Stabilize ==
  /\ adapter = "stabilize"
  /\ a_pc = "idle"
  /\ \E o \in stabilize(input_data) :
       /\ a_pc' = IF o.kind = "raise" THEN "raised" ELSE "stabilized"
       /\ data' = IF o.kind = "raise" THEN data ELSE o.value
       /\ result' = IF o.kind = "raise" THEN o ELSE result
  /\ trail' = Append(trail, a_pc')
  /\ UNCHANGED <<adapter, api_key, env_key, input_data, prompt, model_calls, outcome,
                 chat_vars>>

\* stabilize(stabilize(values))
Restabilize ==
  /\ adapter = "stabilize"
  /\ a_pc = "stabilized"
  /\ result' \in stabilize(data)
  /\ a_pc' = IF result'.kind = "raise" THEN "raised" ELSE "restabilized"
  /\ trail' = Append(trail, a_pc')
  /\ UNCHANGED <<adapter, api_key, env_key, input_data, prompt, model_calls, outcome,
                 data, chat_vars>>

NextStabilize == Stabilize \/ Restabilize

SpecStabilize == InitStabilize /\ [][NextStabilize]_vars

(***************************************************************************)
(* The properties.                                                         *)
(***************************************************************************)
\* The order of the rules, as the claims state it.
RuleOrder ==
  <<"role_refinement", "inclusive_jd", "outreach_message", "sourcing_plan",
    "interview_guide", "task_triage", "offer_handover", "candidate_summary",
    "market_insights">>

\* The rule of tag t matches somewhere in the lowercased message m.
Matches(t, m) ==
  \E r \in 1..Len(patterns) :
     patterns[r].intent = t /\ re_search(patterns[r].pattern, lower(m))

\* C1: get_intent returns the tag of the first rule, in the order of
\* RuleOrder, whose pattern matches the lowercased message; a message that
\* matches several rules resolves to the earliest of them.
C1_FirstRuleWins ==
  op \in {"get_intent", "route_message"} =>
    /\ (\E n \in 1..Len(RuleOrder) : Matches(RuleOrder[n], user_input)) => intent # None
    /\ \A n \in 1..Len(RuleOrder) :
         (Matches(RuleOrder[n], user_input)
            /\ \A k \in 1..(n - 1) : ~Matches(RuleOrder[k], user_input))
         => intent = RuleOrder[n]

\* A message with 'job description' before 'Boolean' in its text, both rules
\* matching, classified as role_refinement.
C1_Witness ==
  /\ op = "get_intent"
  /\ Matches("role_refinement", user_input)
  /\ Matches("inclusive_jd", user_input)
  /\ user_input = T_two_rules_rev
  /\ intent = "role_refinement"

\* No keyword of any rule occurs in the lowercased message, at any place.
NoKeyword(m) == \A kw \in Keywords : ~contains(lower(m), kw)

\* C2: a message with no recognized keyword has the unknown intent, and
\* route_message returns the fixed sentence without extracting parameters or
\* calling a handler.
C2_UnknownIsClarified ==
  (op = "route_message" /\ NoKeyword(user_input)) =>
    /\ intent = None
    /\ response = <<"Sorry, I didn't understand your request. Could you please clarify?">>
    /\ calls = <<"get_intent">>
    /\ params = EmptyDict

\* A message with no keyword and a parameter block, answered by the sentence.
C2_Witness ==
  /\ op = "route_message"
  /\ NoKeyword(user_input)
  /\ parse_params_from_message(user_input) # EmptyDict
  /\ response = SORRY

\* C3: one handled message appends the user message and then the assistant
\* message with the returned text to the history, and changes nothing else
\* of it; leaving the loop changes nothing.
C3_HistoryAppendOnly ==
  [][ /\ chat_pc' = "running" =>
           history' = history \o <<[role |-> "user", content |-> user_input'],
                                   [role |-> "assistant", content |-> response']>>
      /\ chat_pc' = "exited" => history' = history ]_vars

\* Two handled messages, the first of unknown intent and the second filled
\* from a template.
C3_Witness ==
  /\ Len(history) = 4
  /\ history[1].role = "user" /\ history[2].role = "assistant"
  /\ history[2].content = SORRY
  /\ history[3] = [role |-> "user", content |-> user_input]
  /\ history[4] = [role |-> "assistant", content |-> response]
  /\ intent # None

\* What a filled template of template holds at its n-th insertion point:
\* the text between the n-th and the next literal run.
Slot(text, template, n) ==
  SubSeq(text, find(text, template[n].lit, 1) + 1,
               find(text, template[n + 1].lit, 1) - 1)

IsBracketed(s) == Len(s) >= 2 /\ s[1] = "[" /\ s[Len(s)] = "]"

\* What the output holds for an omitted field.
OmittedText ==
  [role_title |-> D_role_title, location |-> D_location, seniority |-> D_seniority,
   must_have |-> D_must_have_skills, nice_to_have |-> D_nice_to_have_skills,
   responsibilities |-> D_responsibilities, requirements |-> D_requirements,
   benefits |-> D_benefits, brand_tone |-> D_neutral,
   candidate_name |-> D_candidate, top_skills |-> D_top_skills,
   value_proposition |-> D_value_proposition, jd_link |-> D_JD_link,
   tone |-> D_professional, industry |-> D_industry_domain,
   competencies |-> D_competencies, stages |-> D_phone_technical_panel,
   open_roles |-> D_open_roles, candidate_stages |-> D_candidate_stages,
   pending_feedback |-> D_pending_feedback,
   upcoming_interviews |-> D_upcoming_interviews, start_date |-> D_start_date,
   onboarding_sops |-> D_onboarding_SOPs, candidate_cv |-> D_candidate_CV_text,
   role_requirements |-> D_role_requirements]

\* C4: every insertion point that has a bracketed placeholder holds the
\* extracted value when the key is present with a non-empty value, and the
\* bracketed placeholder otherwise, an empty value included.
C4_ValueOrBracketedPlaceholder ==
  (op = "route_message" /\ intent # None) =>
    LET t == get_templates[intent]
    IN \A n \in 1..Len(Fields(t)) :
         LET f == Fields(t)[n]
             k == KeyOf[f]
         IN IsBracketed(OmittedText[f]) =>
              IF k \in DOMAIN params /\ params[k] # <<>>
              THEN Slot(response, t, n) = params[k]
              ELSE Slot(response, t, n) = OmittedText[f]

\* The intent of the text before the first colon.
HeadIntent(m) ==
  IF contains_char(m, ":") THEN get_intent(split1(m, ":")[1]) ELSE get_intent(m)

\* The block of m supplies every declared insertion point of intent i.
SuppliesAll(m, i) ==
  /\ contains_char(m, ":")
  /\ \A n \in 1..Len(Fields(get_templates[i])) :
       KeyOf[Fields(get_templates[i])[n]] \in DOMAIN parse_params_from_message(m)

\* The template of intent i with the values of p at its insertion points.
Filled(i, p) ==
  format(get_templates[i],
         [f \in {Fields(get_templates[i])[n] : n \in 1..Len(Fields(get_templates[i]))}
            |-> p[KeyOf[f]]])

BracketedDefaults ==
  {D_role_title, D_location, D_seniority, D_must_have_skills, D_nice_to_have_skills,
   D_responsibilities, D_requirements, D_benefits, D_candidate, D_top_skills,
   D_value_proposition, D_JD_link, D_industry_domain, D_competencies, D_open_roles,
   D_candidate_stages, D_pending_feedback, D_upcoming_interviews, D_start_date,
   D_onboarding_SOPs, D_candidate_CV_text, D_role_requirements}

NoPlaceholderLeft(text) == \A d \in BracketedDefaults : ~contains(text, d)

\* C5 as stated: a message headed by the wording of an intent whose block
\* supplies every declared placeholder yields that intent's template, filled,
\* with no bracketed placeholder left, whatever the values are.
C5_AsStated ==
  op = "route_message" =>
    \A i \in Intents :
      (HeadIntent(user_input) = i /\ SuppliesAll(user_input, i)) =>
         /\ response = Filled(i, parse_params_from_message(user_input))
         /\ NoPlaceholderLeft(response)

\* C5, amended: the intent is the one get_intent gives the whole message,
\* block included; the template of that intent is filled with the supplied
\* values, and no bracketed placeholder is left unless a supplied value
\* holds one.
C5_FilledWhenClassified ==
  op = "route_message" =>
    \A i \in Intents :
      (get_intent(user_input) = i /\ SuppliesAll(user_input, i)) =>
         LET p == parse_params_from_message(user_input)
             t == get_templates[i]
         IN /\ response = Filled(i, p)
            /\ (\A n \in 1..Len(Fields(t)) : NoPlaceholderLeft(p[KeyOf[Fields(t)[n]]]))
                 => NoPlaceholderLeft(response)

\* A job-description message supplying all seven fields, filled completely.
C5_Witness ==
  /\ op = "route_message"
  /\ intent = "inclusive_jd"
  /\ SuppliesAll(user_input, "inclusive_jd")
  /\ params[K_brand_tone] = T_x
  /\ NoPlaceholderLeft(response)
  /\ response = Filled("inclusive_jd", params)

EqSegments(m) ==
  LET parts == split(split1(m, ":")[2], ",")
  IN SelectSeq(parts, LAMBDA part : contains_char(part, "="))

SegKey(seg) == strip(split1(seg, "=")[1])
SegValue(seg) == strip(split1(seg, "=")[2])

\* C7 as stated: no colon gives the empty map; otherwise one entry per
\* segment holding an equals sign, trimmed key to trimmed value.
C7_AsStated ==
  op = "parse_params_from_message" =>
    IF ~contains_char(user_input, ":") THEN params = EmptyDict
    ELSE LET segs == EqSegments(user_input)
         IN /\ Cardinality(DOMAIN params) = Len(segs)
            /\ \A n \in 1..Len(segs) :
                 /\ SegKey(segs[n]) \in DOMAIN params
                 /\ params[SegKey(segs[n])] = SegValue(segs[n])

\* C7, amended: one entry per distinct trimmed key, holding the trimmed
\* value of the last segment with that key.
C7_OneEntryPerKey ==
  op = "parse_params_from_message" =>
    IF ~contains_char(user_input, ":") THEN params = EmptyDict
    ELSE LET segs == EqSegments(user_input)
         IN /\ DOMAIN params = {SegKey(segs[n]) : n \in 1..Len(segs)}
            /\ \A n \in 1..Len(segs) :
                 (\A l \in (n + 1)..Len(segs) : SegKey(segs[l]) # SegKey(segs[n]))
                 => params[SegKey(segs[n])] = SegValue(segs[n])

\* A block with a repeated key, a padded pair and a value with a second equals
\* sign or colon in it.
C7_Witness ==
  /\ op = "parse_params_from_message"
  /\ Len(EqSegments(user_input)) = 2
  /\ DOMAIN params = {K_role_title}
  /\ params[K_role_title] = T_y_z

\* The input of the call names no role: the key is missing, or its value is
\* None or empty.
NoRole ==
  input_data.t = "obj" /\ ~is_true(dict_get(input_data.v, N_role, JNull))

\* The api_key argument or GOOGLE_API_KEY holds a key.
HasCredential == truthy(api_key) \/ truthy(env_key)

\* A dict with "status": "error" and a note.
IsErrorResult(r) ==
  /\ r.kind = "return"
  /\ r.value.t = "obj"
  /\ N_status \in DOMAIN r.value.v
  /\ r.value.v[N_status] = JStr(N_error)
  /\ N_notes \in DOMAIN r.value.v
  /\ r.value.v[N_notes].t = "str"
  /\ r.value.v[N_notes].v # <<>>

C9_MissingCredentialIsErrorResult ==
  (adapter # "none" /\ ~HasCredential) =>
    /\ model_calls = 0
    /\ a_pc # "raised"
    /\ a_pc = "returned" => IsErrorResult(result)

\* C10: no call of either script ends by raising, and a call in which
\* generate_content has raised returns a result with status error whose
\* notes end with the message of the exception (taken with a credential at
\* hand, so that the failure is not the missing credential of C9).
C10_FailuresAreErrorResults ==
  HasCredential =>
    /\ a_pc # "raised"
    /\ (a_pc = "returned" /\ outcome.kind = "raise") =>
         /\ IsErrorResult(result)
         /\ LET notes == result.value.v[N_notes].v
                msg == outcome.exc.msg
            IN /\ Len(notes) >= Len(msg)
               /\ SubSeq(notes, Len(notes) - Len(msg) + 1, Len(notes)) = msg

\* The fields of job_description in the output structure of the JD prompt.
N_full_text == <<"f", "u", "l", "l", "_", "t", "e", "x", "t">>
N_summary == <<"s", "u", "m", "m", "a", "r", "y">>
N_responsibilities == <<"r", "e", "s", "p", "o", "n", "s", "i", "b", "i", "l", "i", "t", "i", "e", "s">>
N_requirements == <<"r", "e", "q", "u", "i", "r", "e", "m", "e", "n", "t", "s">>
N_benefits == <<"b", "e", "n", "e", "f", "i", "t", "s">>
N_inclusion_statement == <<"i", "n", "c", "l", "u", "s", "i", "o", "n", "_", "s", "t", "a", "t", "e", "m", "e", "n", "t">>

JobDescription == {N_full_text, N_summary, N_responsibilities, N_requirements,
                   N_nice_to_have, N_benefits, N_inclusion_statement}

\* A list of str without a value twice, ascending by str.lower.
IsStabilized(x) ==
  /\ x.t = "list"
  /\ \A i \in 1..Len(x.v) : x.v[i].t = "str"
  /\ \A i, j \in 1..Len(x.v) :
       i < j => /\ x.v[i] # x.v[j]
                /\ ~str_lt(lower(x.v[j].v), lower(x.v[i].v))

\* The member is missing, null, or an empty dict, list or str.
AbsentOrEmpty(d, key) ==
  key \notin DOMAIN d \/ d[key].t = "null"
    \/ (d[key].t = "obj" /\ DOMAIN d[key].v = {})
    \/ (d[key].t \in {"list", "str"} /\ Len(d[key].v) = 0)

StatusTags ==
  [jd |-> {N_ok, N_needs_clarification, N_error},
   rr |-> {N_ok, N_needs_clarification}]

NestedEmpty(d) ==
  IF adapter = "jd" THEN AbsentOrEmpty(d, N_job_description)
  ELSE AbsentOrEmpty(d, N_refined_role) /\ AbsentOrEmpty(d, N_boolean_search)

NestedComplete(d) ==
  IF adapter = "jd"
  THEN /\ N_job_description \in DOMAIN d
       /\ d[N_job_description].t = "obj"
       /\ JobDescription \subseteq DOMAIN d[N_job_description].v
       /\ \A f \in {N_responsibilities, N_requirements, N_nice_to_have, N_benefits} :
            IsStabilized(d[N_job_description].v[f])
  ELSE /\ N_refined_role \in DOMAIN d /\ valid_refined_role(d[N_refined_role])
       /\ N_boolean_search \in DOMAIN d /\ valid_boolean_search(d[N_boolean_search])
       /\ \A f \in {N_related_titles, N_core_skills, N_nice_to_have} :
            IsStabilized(d[N_refined_role].v[f])

\* C11: every result a call of either script returns is a dict whose status
\* is one of the tags of the script; with status needs_clarification the
\* nested result is absent or empty and missing_info is a list that is not
\* empty; with status ok the nested result holds every required field and
\* its lists are without duplicates and sorted by lower case.
C11_StatusInvariant ==
  a_pc = "returned" =>
    LET r == result.value
    IN /\ r.t = "obj"
       /\ N_status \in DOMAIN r.v
       /\ r.v[N_status].t = "str"
       /\ r.v[N_status].v \in StatusTags[adapter]
       /\ r.v[N_status].v = N_needs_clarification =>
            /\ NestedEmpty(r.v)
            /\ N_missing_info \in DOMAIN r.v
            /\ r.v[N_missing_info].t = "list"
            /\ r.v[N_missing_info].v # <<>>
       /\ r.v[N_status].v = N_ok => NestedComplete(r.v)

\* The reply the prompt of the role refinement prescribes for a missing role,
\* parsed: status needs_clarification, missing_info not empty, refined_role
\* and boolean_search null.
PrescribedClarification(d) ==
  /\ d.t = "obj"
  /\ {N_status, N_missing_info, N_refined_role, N_boolean_search} \subseteq DOMAIN d.v
  /\ d.v[N_status] = JStr(N_needs_clarification)
  /\ d.v[N_missing_info].t = "list"
  /\ d.v[N_missing_info].v # <<>>
  /\ d.v[N_refined_role] = JNull
  /\ d.v[N_boolean_search] = JNull

\* C12: a call of run_role_refinement whose reply parses to the prescribed
\* needs_clarification shape ends by returning a result with status
\* needs_clarification and the missing_info of the reply.
C12_ClarificationReplyIsReturned ==
  (adapter = "rr" /\ a_pc \in {"returned", "raised"} /\ PrescribedClarification(data)) =>
    /\ a_pc = "returned"
    /\ result.value.v[N_status] = JStr(N_needs_clarification)
    /\ result.value.v[N_missing_info] = data.v[N_missing_info]

\* What rr_parse made of the reply of the call.
ParsedReply == rr_parse(outcome.value).value

\* The members of the result are those of the parsed reply, but for the three
\* lists and industry_focus of refined_role.
OnlyListsAndIndustryChanged(reply, r) ==
  /\ \A k \in {N_status, N_missing_info, N_notes, N_boolean_search} :
       r.v[k] = reply.v[k]
  /\ \A k \in {N_main_title, N_seniority_level} :
       r.v[N_refined_role].v[k] = reply.v[N_refined_role].v[k]

\* C13: a call of run_role_refinement returns a result only when the parsed
\* reply itself has every required field in its declared shape, and the
\* result then differs from the parsed reply in nothing but the three lists
\* and industry_focus.
C13_NoSilentRepair ==
  (adapter = "rr" /\ a_pc = "returned") =>
    /\ ParsedReply.t = "obj"
    /\ N_refined_role \in DOMAIN ParsedReply.v
    /\ ParsedReply.v[N_refined_role].t = "obj"
    /\ {N_related_titles, N_core_skills, N_nice_to_have}
         \subseteq DOMAIN ParsedReply.v[N_refined_role].v
    /\ N_boolean_search \in DOMAIN ParsedReply.v
    /\ valid_boolean_search(ParsedReply.v[N_boolean_search])
    /\ OnlyListsAndIndustryChanged(ParsedReply, result.value)

\* C14: stabilize returns, for a list of str, its distinct values in
\* ascending order of their lower case, and stabilize of what it returned
\* is what it returned, also for values that differ in case only.
C14_StabilizeIsCanonical ==
  adapter = "stabilize" =>
    /\ a_pc \in {"stabilized", "restabilized"} =>
         /\ IsStabilized(data)
         /\ {data.v[i] : i \in 1..Len(data.v)}
              = {input_data.v[i] : i \in 1..Len(input_data.v)}
    /\ a_pc = "restabilized" => result = Return(data)

\* The call has ended.
Terminal == a_pc \in {"returned", "raised"}

IsPrefix(s, t) == Len(s) <= Len(t) /\ s = SubSeq(t, 1, Len(s))

JdPaths ==
  {<<"idle", "returned">>,
   <<"idle", "prompt_built", "model_invoked", "returned">>}

RrPaths ==
  {<<"idle", "prompt_built", "raised">>,
   <<"idle", "prompt_built", "model_invoked", "raised">>,
   <<"idle", "prompt_built", "model_invoked", "parsed", "raised">>,
   <<"idle", "prompt_built", "model_invoked", "parsed", "normalized", "raised">>,
   <<"idle", "prompt_built", "model_invoked", "parsed", "normalized", "returned">>}

brace_span(text) ==
  LET opens == {i \in 1..Len(text) : text[i] = LB}
      closes == {i \in 1..Len(text) : text[i] = RB}
  IN IF opens = {} \/ closes = {} THEN <<>>
     ELSE LET first == CHOOSE i \in opens : \A j \in opens : i <= j
              last == CHOOSE i \in closes : \A j \in closes : i >= j
          IN IF first < last THEN SubSeq(text, first, last) ELSE <<>>

\* json.loads of the text, and where that fails json.loads of its stretch
\* from the first opening to the last closing brace.
brace_fallback(text) ==
  LET direct == json_loads(text)
  IN IF direct.kind = "return" \/ brace_span(text) = <<>> THEN direct
     ELSE json_loads(brace_span(text))

\* The reply of generate_content does not start with a fence.
Unfenced ==
  /\ outcome.kind = "return"
  /\ text_strip(outcome.value) = <<>> \/ text_strip(outcome.value)[1] # FENCE

\* C16: a reply that json.loads rejects is parsed from its first opening brace
\* to its last closing brace by both scripts, so that one JSON object of any
\* depth with prose around it is parsed to that object, and a call ends in
\* a parse error only when this stretch is rejected too.
C16_BraceFallback ==
  (Unfenced /\ Len(trail) >= 4) =>
    LET expected == brace_fallback(text_strip(outcome.value))
    IN /\ adapter = "jd" =>
            IF expected.kind = "return" THEN result = expected
            ELSE IsErrorResult(result)
       /\ adapter = "rr" =>
            /\ trail[4] = "parsed" <=> expected.kind = "return"
            /\ a_pc = "parsed" => data = expected.value

\* What a call of run_role_refinement ends with when generate_content has
\* replied: the steps of lines 221-248 one after the other.
rr_results(reply) ==
  LET parsed == rr_parse(reply)
  IN IF parsed.kind = "raise" THEN {parsed}
     ELSE {IF n.kind = "raise" THEN n ELSE validate(n.value) :
             n \in rr_normalize(parsed.value)}

\* The replies that are valid JSON and are also sent between fences with
\* the tag json.
FencedJson == {J \in Replies : json_loads(J).kind = "return" /\ Fenced(J) \in Replies}

\* C17: a call whose reply is valid JSON between two fences, the first with
\* the tag json, ends as the call does whose reply is that JSON alone; a
\* reply that starts with a fence and holds no second one is parsed as it is,
\* fence and all.
C17_FenceEquivalence ==
  (Terminal /\ outcome.kind = "return") =>
    \A J \in FencedJson :
      /\ outcome.value = Fenced(J) =>
           /\ adapter = "jd" => result = jd_finish(Return(J))
           /\ adapter = "rr" => result \in rr_results(J)
      /\ (outcome.value = FenceOpen(J) /\ adapter = "jd" /\ FenceOpen(J) \in Replies) =>
           result = Return(error_result(GENERATION_FAILED
                                          \o json_loads(FenceOpen(J)).exc.msg))

\* The segments of the message that hold an equals sign; none without a colon.
PairSegments ==
  IF contains_char(user_input, ":") THEN EqSegments(user_input) ELSE <<>>

\* C18: the parameters route_message works with in a turn of the chat (the
\* loop still running after it) hold
\* one value per key, for each key the trimmed value of the last segment of
\* this message with that trimmed key, and nothing else: no key and no value
\* of an earlier message is among them.  Past the early return every key of
\* the message is among them.
C18_FreshLastWins ==
  (op = "run_chat" /\ chat_pc = "running") =>
    /\ \A k \in DOMAIN params :
         \E n \in 1..Len(PairSegments) :
           /\ SegKey(PairSegments[n]) = k
           /\ \A l \in (n + 1)..Len(PairSegments) : SegKey(PairSegments[l]) # k
           /\ params[k] = SegValue(PairSegments[n])
    /\ intent # None =>
         \A n \in 1..Len(PairSegments) : SegKey(PairSegments[n]) \in DOMAIN params

\* The second message of a chat names location twice, the first one named
\* role_title.
C18_Witness ==
  /\ op = "run_chat"
  /\ chat_pc = "running"
  /\ Len(history) = 4
  /\ K_role_title \in DOMAIN parse_params_from_message(history[1].content)
  /\ Len(PairSegments) = 2
  /\ DOMAIN params = {K_location}
  /\ params[K_location] = T_x

\* The names of the insertion points of the template of an intent.
FieldNames(i) ==
  {Fields(get_templates[i])[n] : n \in 1..Len(Fields(get_templates[i]))}

\* C19: the intents of the rules of get_intent, the keys of self.handlers and
\* the keys of the templates are the same nine tags, and the handler of each
\* passes a keyword argument for every insertion point of its template, with
\* whatever parameters; so route_message returns a text for every message:
\* the fixed reply when no rule matches, else the template of the intent
\* filled by its handler, be there undeclared keys, an empty key or braces
\* in a value.
C19_DispatchTotal ==
  /\ Intents = handler_keys
  /\ handler_keys = DOMAIN get_templates
  /\ Cardinality(handler_keys) = Len(patterns)
  /\ Len(patterns) = 9
  /\ \A i \in handler_keys : FieldNames(i) \subseteq DOMAIN kwargs(i, params)
  /\ op \in {"get_intent", "route_message"} => intent \in handler_keys \cup {None}
  /\ op = "route_message" =>
       /\ response # <<>>
       /\ intent = None => response = SORRY
       /\ intent # None =>
            response = format(get_templates[intent], kwargs(intent, params))

\* A message for a job description with an empty key and a key its handler
\* does not look up.
C19_Witness ==
  /\ op = "route_message"
  /\ intent = "inclusive_jd"
  /\ DOMAIN params = {<<>>, K_stages}
  /\ response # <<>>
  /\ response # SORRY

====
